---- MODULE Spec2Model ----
(***************************************************************************)
(* Station broadcast orchestrator: the stream-status reconciler             *)
(* (syncStreamStatus), the port allocator (getNextAvailablePort and its    *)
(* callers) and the Auto DJ / live DJ handlers of the audio streamer.      *)
(* Every asynchronous handler is cut at its awaits: one action is the code *)
(* that runs between two awaits, together with the database or bus         *)
(* operation the first await waited for.                                   *)
(***************************************************************************)
EXTENDS Integers, Sequences, FiniteSets, TLC

(***************************************************************************)
(* Bounds of the model.                                                    *)
(***************************************************************************)
\* reconciliation cycles in flight at once (setInterval does not wait)
MaxCycles == 2
\* last value of the database clock NOW() that a statement may read
MaxClock == 4
\* requests and outside events (a crash of the encoder) the streamer receives
MaxRequests == 3
\* handler calls in flight at once
MaxCalls == 2
\* admin requests (station creation, deletion) the streamer receives
MaxAdmin == 2
\* ports in the pool BASE_STREAM_PORT .. MAX_STREAM_PORT
PoolSize == 2
\* requests and events from outside in a behaviour of the streamer with two stations
MaxStationRequests == 2
\* calls of the database, the state store or the bus that fail in a behaviour of the
\* reconciler
MaxFaults == 1


(***************************************************************************)
(* State reconciler (src/unnamed/part_000)                                 *)
(***************************************************************************)
Keys == {"k1", "k2"}

\* SQL NULL of the timestamp columns actual_start and actual_end
NULL == 0

VARIABLES
    knownActiveStreams,  \* the Set, as the sequence of its keys in insertion order
    streams,             \* table streams, one row per stream_key
    streamState,         \* redis stream state written by setStreamState
    bus,                 \* notifications published, oldest first
    now,                 \* the database clock: what NOW() returns next
    cycles,              \* the syncStreamStatus calls in flight, a bag of their states
    lastCycle            \* history: how the cycle that finished last ended

VARIABLES
    audio_stations,      \* table audio_stations, one row per station id
    playlist_tracks,     \* tracks of the station's effective playlist, by position
    now_playing,         \* table now_playing, one row per station id
    autoDJProcesses,     \* the Map stationId -> process, as the pid or NoProc
    liveDJConnections,   \* the Map mount -> { stationId, djId }
    processes,           \* every encoder process spawned so far, by pid
    timers,              \* pending setTimeout callbacks, a bag
    calls,               \* handler calls in flight at an await, a bag
    pendingDeletes,      \* DELETE FROM now_playing statements not waited for, per station
    last_connected,      \* DJs whose last_connected was written
    playlistFiles,       \* /storage/audio/playlists/<id>.txt as the tracks written
    stream_history,      \* number of auto_dj rows of stream_history, per station
    requests,            \* requests and outside events the environment has left
    sourceConnections,   \* per mount: sources the connect hook accepted on the
                         \* ICECAST_SOURCE_PASSWORD and that are still connected
    station_mount_points, \* stations with a primary row in station_mount_points
    station_playlists,   \* stations with a default playlist row
    icecastContainers,   \* the Map stationId -> container name
    docker,              \* containers of the docker daemon: name -> published host port,
                         \* and whether the previous run of the streamer left one there
    issued,              \* station ids gen_random_uuid has returned
    main                 \* where main() stands

syncVars == <<knownActiveStreams, streams, streamState, bus, now, cycles, lastCycle>>

djVars == <<audio_stations, playlist_tracks, now_playing, autoDJProcesses,
            liveDJConnections, processes, timers, calls, pendingDeletes, last_connected,
            playlistFiles, stream_history, requests, sourceConnections>>

\* djVars without the budget of outside events
djState == <<audio_stations, playlist_tracks, now_playing, autoDJProcesses,
             liveDJConnections, processes, timers, calls, pendingDeletes, last_connected,
             playlistFiles, stream_history, sourceConnections>>

adminVars == <<station_mount_points, station_playlists, icecastContainers, docker, issued,
               main>>

vars == <<syncVars, djVars, adminVars>>

\* what the reconciler owns and the claims observe
observed == <<knownActiveStreams, streams, streamState, bus>>

NoRow == [present |-> FALSE, status |-> "none", actual_start |-> NULL,
          actual_end |-> NULL, recording_enabled |-> FALSE]

IdleRow(rec) == [present |-> TRUE, status |-> "idle", actual_start |-> NULL,
                 actual_end |-> NULL, recording_enabled |-> rec]

LiveRow(rec) == [present |-> TRUE, status |-> "live", actual_start |-> 1,
                 actual_end |-> NULL, recording_enabled |-> rec]

\* data.streams.filter(s => s.publish?.active).map(s => s.name...)
ActiveStreamKeys(data) == {k \in Keys : data[k] = "publishing"}

KnownSet(kn) == {kn[j] : j \in 1..Len(kn)}

\* Set.add: a key already present keeps its place
KnownAdd(kn, k) == IF k \in KnownSet(kn) THEN kn ELSE Append(kn, k)

\* Set.delete
KnownDelete(kn, k) == SelectSeq(kn, LAMBDA x : x # k)

Perms(S) == {q \in [1..Cardinality(S) -> S] : \A a, b \in 1..Cardinality(S) : a # b => q[a] # q[b]}

RECURSIVE SkipKnown(_, _)
\* first loop: keys already in knownActiveStreams are passed synchronously
SkipKnown(q, kn) ==
    IF q = <<>> THEN q
    ELSE IF Head(q) \in KnownSet(kn) THEN SkipKnown(Tail(q), kn) ELSE q

\* mutant: the test of the second loop inverted
EndedKeysInverted(kn, active) == SelectSeq(kn, LAMBDA k : k \in active)

\* second loop: the keys of knownActiveStreams, in its order, that activeStreamKeys lacks
EndedKeys(kn, active) == SelectSeq(kn, LAMBDA k : k \notin active)

\* second loop: the next key of knownActiveStreams the origin no longer reports
ContinueEnds(c, kn) ==
    LET e == EndedKeys(kn, c.active)
    IN  IF e # <<>>
        THEN [c EXCEPT !.pc = "end_update", !.cur = Head(e), !.queue = <<>>, !.sent = <<>>]
        ELSE [c EXCEPT !.pc = "done", !.queue = <<>>]

\* first loop: the next key of activeStreamKeys that is not known, else the second loop
ContinueStarts(c, kn) ==
    LET q == SkipKnown(c.queue, kn)
    IN  IF q # <<>>
        THEN [c EXCEPT !.pc = "start_update", !.cur = Head(q), !.queue = Tail(q),
                       !.sent = <<>>]
        ELSE ContinueEnds(c, kn)

Copies(b, c) == IF c \in DOMAIN b THEN b[c] ELSE 0

BagAdd(b, c) == [d \in DOMAIN b \cup {c} |-> Copies(b, d) + (IF d = c THEN 1 ELSE 0)]

BagRemove(b, c) == [d \in {e \in DOMAIN b : e # c \/ b[e] > 1} |-> IF d = c THEN b[d] - 1 ELSE b[d]]

RECURSIVE BagSize(_)
BagSize(b) ==
    IF DOMAIN b = {} THEN 0
    ELSE LET c == CHOOSE d \in DOMAIN b : TRUE
         IN  b[c] + BagSize([d \in DOMAIN b \ {c} |-> b[d]])

EmptyBag == [d \in {} |-> 0]

\* history kept of the cycle that finished last: "none", "failed" (its fetch failed),
\* "overlapped" (another cycle was in flight with it) or "alone", then with its active
\* set and whether it repeated the active set of an "alone" cycle right before it
NoCycle == [how |-> "none", active |-> {}, repeat |-> FALSE]

Finished(c) ==
    IF c.solo THEN [how |-> "alone", active |-> c.active, repeat |-> c.repeat]
    ELSE [how |-> "overlapped", active |-> {}, repeat |-> FALSE]

\* the cycle c moves to d; a finished cycle leaves and is remembered
Settle(c, d) ==
    IF d.pc = "done"
    THEN /\ cycles' = BagRemove(cycles, c)
         /\ lastCycle' = Finished(d)
    ELSE /\ cycles' = BagAdd(BagRemove(cycles, c), d)
         /\ lastCycle' = lastCycle

\* the cycles in flight when another call of syncStreamStatus begins: none of them
\* runs alone any more
Overlapped(b) ==
    LET f(c) == [c EXCEPT !.solo = FALSE, !.repeat = FALSE]
    IN  [d \in {f(c) : c \in DOMAIN b} |->
            Copies(b, d) + (IF [d EXCEPT !.solo = TRUE] \in DOMAIN b
                            THEN b[[d EXCEPT !.solo = TRUE]] ELSE 0)
                         + (IF [d EXCEPT !.solo = TRUE, !.repeat = TRUE] \in DOMAIN b
                            THEN b[[d EXCEPT !.solo = TRUE, !.repeat = TRUE]] ELSE 0)]

\* what GET /api/v1/streams/ may answer: per stream name, not listed, listed without
\* an active publisher, or publishing
OriginResponses == [Keys -> {"none", "idle", "publishing"}]

FailedResponses == {"network_error", "not_ok", "api_error"}

\* mutant: a failed fetch handled as an answer listing no stream
SyncFetchFailedAsEmpty(resp) ==
    /\ resp \in FailedResponses
    /\ BagSize(cycles) < MaxCycles
    /\ LET c == ContinueEnds([pc |-> "fetch", active |-> {}, queue |-> <<>>, cur |-> "none",
                              rec |-> FALSE, solo |-> cycles = EmptyBag, sent |-> <<>>,
                              repeat |-> FALSE], knownActiveStreams)
       IN  cycles' = IF c.pc = "done" THEN Overlapped(cycles) ELSE BagAdd(Overlapped(cycles), c)
    /\ lastCycle' = [how |-> "failed", active |-> {}, repeat |-> FALSE]
    /\ UNCHANGED <<knownActiveStreams, streams, streamState, bus, now>>

\* syncStreamStatus when fetch threw, !response.ok or data.code !== 0: log and return
SyncFetchFailed(resp) ==
    /\ resp \in FailedResponses
    /\ BagSize(cycles) < MaxCycles
    /\ cycles' = Overlapped(cycles)
    /\ lastCycle' = [how |-> "failed", active |-> {}, repeat |-> FALSE]
    /\ UNCHANGED <<knownActiveStreams, streams, streamState, bus, now>>

\* a call of syncStreamStatus whose fetch answered data, activeStreamKeys iterating in
\* the order q; solo, repeat and sent are history: no other cycle in flight since it
\* began, same active set as the cycle that finished alone right before it, and the
\* topics the current handler call has published
NewCycle(data, q, alone) ==
    [pc |-> "fetch", active |-> ActiveStreamKeys(data), queue |-> q, cur |-> "none",
     rec |-> FALSE, solo |-> alone, sent |-> <<>>,
     repeat |-> /\ alone
                /\ lastCycle.how = "alone"
                /\ lastCycle.active = ActiveStreamKeys(data)]

\* syncStreamStatus (the first call or a setInterval tick) up to its first await after
\* the response: activeStreamKeys is built and the loops run until a handler awaits
SyncFetchOk(data, q) ==
    /\ data \in OriginResponses
    /\ q \in Perms(ActiveStreamKeys(data))
    /\ BagSize(cycles) < MaxCycles
    /\ LET c == ContinueStarts(NewCycle(data, q, cycles = EmptyBag), knownActiveStreams)
       IN  IF c.pc = "done"
           THEN /\ cycles' = Overlapped(cycles)
                /\ lastCycle' = Finished(c)
           ELSE /\ cycles' = BagAdd(Overlapped(cycles), c)
                /\ lastCycle' = lastCycle
    /\ UNCHANGED <<knownActiveStreams, streams, streamState, bus, now>>

\* mutant: the UPDATE of handleStreamStart without AND status != $2
StartMatchesAnyStatus(row) == row.present

\* UPDATE ... WHERE stream_key = $1 AND status != 'live'
StartMatches(row) == row.present /\ row.status # "live"

\* mutant: actual_start = NOW() without the COALESCE
MarkLiveResetsStart(row, t) == [row EXCEPT !.status = "live", !.actual_start = t]

\* SET status = 'live', actual_start = COALESCE(actual_start, NOW())
MarkLive(row, t) ==
    [row EXCEPT !.status = "live",
                !.actual_start = IF row.actual_start = NULL THEN t ELSE row.actual_start]

\* UPDATE ... WHERE stream_key = $1 AND status = 'live'
EndMatches(row) == row.present /\ row.status = "live"

\* mutant: the status is set and actual_end is forgotten
MarkEndedWithoutTime(row, t) == [row EXCEPT !.status = "ended"]

\* SET status = 'ended', actual_end = NOW()
MarkEnded(row, t) == [row EXCEPT !.status = "ended", !.actual_end = t]

\* handleStreamStart returned: knownActiveStreams.add(streamKey), the loop goes on
StartReturns(c, sent) ==
    LET kn == KnownAdd(knownActiveStreams, c.cur)
    IN  /\ knownActiveStreams' = kn
        /\ Settle(c, ContinueStarts([c EXCEPT !.sent = sent], kn))

\* handleStreamEnd returned: knownActiveStreams.delete(streamKey), the loop goes on
EndReturns(c, sent) ==
    LET kn == KnownDelete(knownActiveStreams, c.cur)
    IN  /\ knownActiveStreams' = kn
        /\ Settle(c, ContinueEnds([c EXCEPT !.sent = sent], kn))

\* mutant: if (stream.recording_enabled) taken as always true
RecordingAlways(row) == TRUE

\* RETURNING ... recording_enabled, as if (stream.recording_enabled) reads it
RecordingEnabled(row) == row.recording_enabled

\* handleStreamStart: the conditional UPDATE
HandleStartUpdate(c) ==
    /\ c.pc = "start_update"
    /\ LET row == streams[c.cur]
       IN  IF StartMatches(row)
           THEN /\ now <= MaxClock
                /\ streams' = [streams EXCEPT ![c.cur] = MarkLive(row, now)]
                /\ now' = now + 1
                /\ Settle(c, [c EXCEPT !.pc = "start_state", !.rec = RecordingEnabled(row)])
                /\ UNCHANGED <<knownActiveStreams, streamState, bus>>
           ELSE /\ StartReturns(c, c.sent)
                /\ UNCHANGED <<streams, streamState, bus, now>>

\* handleStreamStart: setStreamState(streamKey, {status: "live", ...})
HandleStartState(c) ==
    /\ c.pc = "start_state"
    /\ streamState' = [streamState EXCEPT ![c.cur] = "live"]
    /\ Settle(c, [c EXCEPT !.pc = "start_publish"])
    /\ UNCHANGED <<knownActiveStreams, streams, bus, now>>

\* publish(topic, {streamKey, ...}) by the cycle c
Publish(c, topic) == bus' = Append(bus, [topic |-> topic, key |-> c.cur])

\* handleStreamStart: publish("stream:start"), then recording:start if enabled
HandleStartPublish(c) ==
    /\ c.pc = "start_publish"
    /\ Publish(c, "stream:start")
    /\ IF c.rec
       THEN /\ Settle(c, [c EXCEPT !.pc = "start_recording",
                                   !.sent = Append(@, "stream:start")])
            /\ UNCHANGED knownActiveStreams
       ELSE StartReturns(c, Append(c.sent, "stream:start"))
    /\ UNCHANGED <<streams, streamState, now>>

\* handleStreamStart: publish("recording:start")
HandleStartRecording(c) ==
    /\ c.pc = "start_recording"
    /\ Publish(c, "recording:start")
    /\ StartReturns(c, Append(c.sent, "recording:start"))
    /\ UNCHANGED <<streams, streamState, now>>

\* handleStreamEnd: the conditional UPDATE
HandleEndUpdate(c) ==
    /\ c.pc = "end_update"
    /\ LET row == streams[c.cur]
       IN  IF EndMatches(row)
           THEN /\ now <= MaxClock
                /\ streams' = [streams EXCEPT ![c.cur] = MarkEnded(row, now)]
                /\ now' = now + 1
                /\ Settle(c, [c EXCEPT !.pc = "end_recording"])
                /\ UNCHANGED <<knownActiveStreams, streamState, bus>>
           ELSE /\ EndReturns(c, c.sent)
                /\ UNCHANGED <<streams, streamState, bus, now>>

\* mutant: the two publish calls of handleStreamEnd swapped
EndTopicsSwapped == <<"stream:stop", "recording:stop">>

\* handleStreamEnd: the topics it publishes, in the order of its publish calls
EndTopics == <<"recording:stop", "stream:stop">>

\* handleStreamEnd: publish("recording:stop") first
HandleEndRecording(c) ==
    /\ c.pc = "end_recording"
    /\ Publish(c, EndTopics[1])
    /\ Settle(c, [c EXCEPT !.pc = "end_state", !.sent = Append(@, EndTopics[1])])
    /\ UNCHANGED <<knownActiveStreams, streams, streamState, now>>

\* handleStreamEnd: setStreamState(streamKey, null)
HandleEndState(c) ==
    /\ c.pc = "end_state"
    /\ streamState' = [streamState EXCEPT ![c.cur] = "none"]
    /\ Settle(c, [c EXCEPT !.pc = "end_publish"])
    /\ UNCHANGED <<knownActiveStreams, streams, bus, now>>

\* handleStreamEnd: publish("stream:stop")
HandleEndPublish(c) ==
    /\ c.pc = "end_publish"
    /\ Publish(c, EndTopics[2])
    /\ EndReturns(c, Append(c.sent, EndTopics[2]))
    /\ UNCHANGED <<streams, streamState, now>>

\* mutant: handleStreamStart without its try/catch: the rejection reaches the catch of
\* syncStreamStatus, which ends the cycle before knownActiveStreams.add
HandleStartRethrows(c) ==
    /\ c.pc \in {"start_update", "start_state", "start_publish", "start_recording"}
    /\ Settle(c, [c EXCEPT !.pc = "done", !.queue = <<>>])
    /\ UNCHANGED <<knownActiveStreams, streams, streamState, bus, now>>

\* handleStreamStart: the call it awaits (query, setStreamState or publish) rejects;
\* the catch logs, the handler returns, and syncStreamStatus adds the key as after
\* any return
HandleStartThrows(c) ==
    /\ c.pc \in {"start_update", "start_state", "start_publish", "start_recording"}
    /\ StartReturns(c, c.sent)
    /\ UNCHANGED <<streams, streamState, bus, now>>

\* handleStreamEnd: the call it awaits rejects; the catch logs, the handler returns, and
\* syncStreamStatus deletes the key as after any return
HandleEndThrows(c) ==
    /\ c.pc \in {"end_update", "end_recording", "end_state", "end_publish"}
    /\ EndReturns(c, c.sent)
    /\ UNCHANGED <<streams, streamState, bus, now>>

(***************************************************************************)
(* Auto DJ and live DJ handlers (src/audio-streamer/src/index.ts)          *)
(***************************************************************************)
\* station ids (gen_random_uuid), mount points, tracks, encoder passwords
StationIds == {"a1", "a2", "b1", "b2"}

Mounts == {"m1", "m2"}

Playlists == {<<>>, <<"t1", "t2">>, <<"t2">>}

ICECAST_SOURCE_PASSWORD == "source"

Passwords == {"pw1", "pw2", ICECAST_SOURCE_PASSWORD}

\* a row of audio_stations; NoStation stands for "no row with this id"
NoStation == [present |-> FALSE, stream_port |-> NULL, mount_point |-> "none",
              auto_dj_enabled |-> FALSE]

StationRow(port, mount, enabled) ==
    [present |-> TRUE, stream_port |-> port, mount_point |-> mount,
     auto_dj_enabled |-> enabled]

\* table station_djs: d1 and d3 may stream to their stations, d2 is deactivated
station_djs ==
    {[id |-> "d1", station_id |-> "a1", stream_password |-> "pw1",
      is_active |-> TRUE, can_stream |-> TRUE],
     [id |-> "d2", station_id |-> "a1", stream_password |-> "pw2",
      is_active |-> FALSE, can_stream |-> TRUE],
     [id |-> "d3", station_id |-> "b1", stream_password |-> "pw2",
      is_active |-> TRUE, can_stream |-> TRUE]}

DjIds == {d.id : d \in station_djs}

\* the mount as the media server sends it: a slash, then the mount point
RawMounts == {<<"/", m>> : m \in Mounts}

\* mount.replace('/', '')
StripSlash(raw) == IF raw[1] = "/" THEN raw[2] ELSE raw[1]

\* no entry in a Map
NoProc == 0

NoConn == [stationId |-> "none", djId |-> "none"]

\* no row of now_playing for the station
NoNP == [present |-> FALSE, track_id |-> "none", dj_id |-> "none", is_live |-> FALSE]

\* a handler call in flight, waiting at the await named by pc
Call(op, pc, s) ==
    [op |-> op, pc |-> pc, station |-> s, origin |-> "none", underLive |-> FALSE,
     enabledAtFire |-> TRUE, track |-> "none", dj |-> "none", port |-> NULL,
     mount |-> "none", raw |-> <<>>, pass |-> "none"]

Timer(kind, s) == [kind |-> kind, station |-> s]

EnabledIgnoringFlag(s) == audio_stations[s].present

Enabled(s) == audio_stations[s].present /\ audio_stations[s].auto_dj_enabled

ConnectionsOf(s) == {m \in RawMounts : liveDJConnections[m].stationId = s}

HasLive(s) == ConnectionsOf(s) # {}

\* an event from outside is one of those the environment has left to cause
Event ==
    /\ requests > 0
    /\ requests' = requests - 1

\* a request to a handler, served while fewer than MaxCalls calls are in flight
Request ==
    /\ BagSize(calls) < MaxCalls
    /\ Event

\* startAutoDJ up to its first await: a call in flight unless the registry has an entry.
\* origin, underLive and enabledAtFire are history: who called, whether a live
\* connection existed, and what auto_dj_enabled was when the restart timer fired
StartAutoDJFromUnchecked(s, origin, atFire, b) ==
    BagAdd(b, [Call("start", "station", s) EXCEPT !.origin = origin,
                                                  !.underLive = HasLive(s),
                                                  !.enabledAtFire = atFire])

StartAutoDJFrom(s, origin, atFire, b) ==
    IF autoDJProcesses[s] # NoProc THEN b
    ELSE BagAdd(b, [Call("start", "station", s) EXCEPT !.origin = origin,
                                                       !.underLive = HasLive(s),
                                                       !.enabledAtFire = atFire])

StartAutoDJ(s, origin, b) == StartAutoDJFrom(s, origin, TRUE, b)

\* await of SELECT * FROM audio_stations, then the two early returns
StartStation(c) ==
    /\ c.op = "start" /\ c.pc = "station"
    /\ calls' = IF Enabled(c.station)
                THEN BagAdd(BagRemove(calls, c), [c EXCEPT !.pc = "tracks"])
                ELSE BagRemove(calls, c)
    /\ UNCHANGED <<audio_stations, playlist_tracks, now_playing, autoDJProcesses,
                   liveDJConnections, processes, timers, pendingDeletes,
                   last_connected, playlistFiles, stream_history, requests,
                   sourceConnections, adminVars>>

\* await of the tracks query; with tracks: the playlist file, spawn, the exit handler
\* and autoDJProcesses.set
StartTracks(c) ==
    /\ c.op = "start" /\ c.pc = "tracks"
    /\ LET tracks == playlist_tracks[c.station]
       IN  IF tracks = <<>>
           THEN /\ calls' = BagRemove(calls, c)
                /\ UNCHANGED <<autoDJProcesses, processes, playlistFiles>>
           ELSE /\ playlistFiles' = [playlistFiles EXCEPT ![c.station] = tracks]
                /\ processes' = Append(processes,
                                  [station |-> c.station, state |-> "running",
                                   origin |-> c.origin, underLive |-> c.underLive,
                                   enabledAtFire |-> c.enabledAtFire])
                /\ autoDJProcesses' =
                       [autoDJProcesses EXCEPT ![c.station] = Len(processes) + 1]
                /\ calls' = BagAdd(BagRemove(calls, c),
                                   [c EXCEPT !.pc = "now_playing", !.track = tracks[1]])
    /\ UNCHANGED <<audio_stations, playlist_tracks, now_playing, liveDJConnections,
                   timers, pendingDeletes, last_connected, stream_history, requests,
                   sourceConnections, adminVars>>

\* INSERT INTO now_playing ... ON CONFLICT DO UPDATE SET track_id, is_live = false;
\* station_id REFERENCES audio_stations: the statement fails once the station is gone
StartNowPlaying(c) ==
    /\ c.op = "start" /\ c.pc = "now_playing"
    /\ now_playing' =
           IF audio_stations[c.station].present
           THEN [now_playing EXCEPT ![c.station] =
                    [present |-> TRUE, track_id |-> c.track, dj_id |-> @.dj_id,
                     is_live |-> FALSE]]
           ELSE now_playing
    /\ calls' = BagRemove(calls, c)
    /\ UNCHANGED <<audio_stations, playlist_tracks, autoDJProcesses, liveDJConnections,
                   processes, timers, pendingDeletes, last_connected, playlistFiles,
                   stream_history, requests, sourceConnections, adminVars>>

\* stopAutoDJ: SIGTERM to the registered process, and the entry leaves the registry
Signalled(s) ==
    IF autoDJProcesses[s] = NoProc THEN processes
    ELSE [processes EXCEPT ![autoDJProcesses[s]].state =
              IF @ = "running" THEN "signalled" ELSE @]

StopAutoDJOfEveryStation(s) ==
    /\ processes' = [p \in DOMAIN processes |->
                        IF /\ autoDJProcesses[processes[p].station] = p
                           /\ processes[p].state = "running"
                        THEN [processes[p] EXCEPT !.state = "signalled"]
                        ELSE processes[p]]
    /\ autoDJProcesses' = [t \in StationIds |-> NoProc]

StopAutoDJKeepingEntry(s) ==
    /\ processes' = Signalled(s)
    /\ UNCHANGED autoDJProcesses

StopAutoDJ(s) ==
    /\ processes' = Signalled(s)
    /\ autoDJProcesses' = [autoDJProcesses EXCEPT ![s] = NoProc]

\* the 'exit' handler of the process p
ArmRestart(s) == BagAdd(timers, Timer("restart", s))

\* mutant: the exit handler without its INSERT INTO stream_history
LogHistorySkipped(s) == stream_history

\* INSERT INTO stream_history (station_id, ..., 'auto_dj'), not waited for; station_id
\* REFERENCES audio_stations: the statement fails once the station is gone
LogHistory(s) ==
    IF audio_stations[s].present THEN [stream_history EXCEPT ![s] = @ + 1]
    ELSE stream_history

OnExit(p) ==
    LET s == processes[p].station
    IN  /\ processes' = [processes EXCEPT ![p].state = "exited"]
        /\ autoDJProcesses' = [autoDJProcesses EXCEPT ![s] = NoProc]
        /\ pendingDeletes' = [pendingDeletes EXCEPT ![s] = @ + 1]
        /\ stream_history' = LogHistory(s)
        /\ timers' = ArmRestart(s)
        /\ UNCHANGED <<audio_stations, playlist_tracks, now_playing, liveDJConnections,
                       calls, last_connected, playlistFiles, sourceConnections, adminVars>>

\* the process ends by itself: end of input, a refused source connection, a crash
ProcessCrash(p) ==
    /\ processes[p].state = "running"
    /\ Event
    /\ OnExit(p)

\* the process ends on the SIGTERM it was sent
ProcessExit(p) ==
    /\ processes[p].state = "signalled"
    /\ OnExit(p)
    /\ UNCHANGED requests

\* the DELETE FROM now_playing the exit handler did not wait for
PendingDelete(s) ==
    /\ pendingDeletes[s] > 0
    /\ pendingDeletes' = [pendingDeletes EXCEPT ![s] = @ - 1]
    /\ now_playing' = [now_playing EXCEPT ![s] = NoNP]
    /\ UNCHANGED <<audio_stations, playlist_tracks, autoDJProcesses, liveDJConnections,
                   processes, timers, calls, last_connected, playlistFiles,
                   stream_history, requests, sourceConnections, adminVars>>

\* a timer fires: the start-up timer (5000) and the timer of the disconnect handler
\* (2000) call startAutoDJ; the restart timer of the exit handler (5000) runs a callback
\* that first awaits SELECT auto_dj_enabled
TimerFires(t) ==
    /\ t \in DOMAIN timers
    /\ timers' = BagRemove(timers, t)
    /\ calls' = IF t.kind = "restart"
                THEN BagAdd(calls, [Call("restart", "check", t.station)
                                       EXCEPT !.enabledAtFire = Enabled(t.station)])
                ELSE StartAutoDJ(t.station, t.kind, calls)
    /\ UNCHANGED <<audio_stations, playlist_tracks, now_playing, autoDJProcesses,
                   liveDJConnections, processes, pendingDeletes, last_connected,
                   playlistFiles, stream_history, requests, sourceConnections, adminVars>>

\* the SELECT of the restart callback has returned: startAutoDJ if the row exists and
\* auto_dj_enabled is set
RestartUnchecked(s) == TRUE

RestartAllowed(s) == Enabled(s)

RestartCheck(c) ==
    /\ c.op = "restart" /\ c.pc = "check"
    /\ calls' = IF RestartAllowed(c.station)
                THEN StartAutoDJFrom(c.station, "restart", c.enabledAtFire,
                                     BagRemove(calls, c))
                ELSE BagRemove(calls, c)
    /\ UNCHANGED <<audio_stations, playlist_tracks, now_playing, autoDJProcesses,
                   liveDJConnections, processes, timers, pendingDeletes, last_connected,
                   playlistFiles, stream_history, requests, sourceConnections, adminVars>>

\* POST /api/audio/stations/:id/start
ManualStart(s) ==
    /\ Request
    /\ audio_stations[s].present
    /\ calls' = StartAutoDJ(s, "manual", calls)
    /\ UNCHANGED <<audio_stations, playlist_tracks, now_playing, autoDJProcesses,
                   liveDJConnections, processes, timers, pendingDeletes, last_connected,
                   playlistFiles, stream_history, sourceConnections, adminVars>>

\* POST /api/audio/stations/:id/stop, up to the await of killIcecastMount
ManualStop(s) ==
    /\ Request
    /\ audio_stations[s].present
    /\ StopAutoDJ(s)
    /\ calls' = BagAdd(calls, Call("stop", "kill", s))
    /\ UNCHANGED <<audio_stations, playlist_tracks, now_playing, liveDJConnections,
                   timers, pendingDeletes, last_connected, playlistFiles,
                   stream_history, sourceConnections, adminVars>>

\* killIcecastMount has returned: the live connections of the station are cleared
StopKill(c) ==
    /\ c.op = "stop" /\ c.pc = "kill"
    /\ liveDJConnections' =
           [m \in RawMounts |-> IF liveDJConnections[m].stationId = c.station
                                THEN NoConn ELSE liveDJConnections[m]]
    /\ calls' = BagAdd(BagRemove(calls, c), [c EXCEPT !.pc = "now_playing"])
    /\ UNCHANGED <<audio_stations, playlist_tracks, now_playing, autoDJProcesses,
                   processes, timers, pendingDeletes, last_connected, playlistFiles,
                   stream_history, requests, sourceConnections, adminVars>>

StopNowPlaying(c) ==
    /\ c.op = "stop" /\ c.pc = "now_playing"
    /\ now_playing' = [now_playing EXCEPT ![c.station] = NoNP]
    /\ calls' = BagRemove(calls, c)
    /\ UNCHANGED <<audio_stations, playlist_tracks, autoDJProcesses, liveDJConnections,
                   processes, timers, pendingDeletes, last_connected, playlistFiles,
                   stream_history, requests, sourceConnections, adminVars>>

\* PUT /api/audio/stations/:id with auto_dj_enabled in the body
UpdateStation(s, enabled) ==
    /\ Request
    /\ audio_stations[s].present
    /\ audio_stations[s].auto_dj_enabled # enabled
    /\ audio_stations' = [audio_stations EXCEPT ![s].auto_dj_enabled = enabled]
    /\ UNCHANGED <<playlist_tracks, now_playing, autoDJProcesses, liveDJConnections,
                   processes, timers, calls, pendingDeletes, last_connected,
                   playlistFiles, stream_history, sourceConnections, adminVars>>

\* the tracks of the effective playlist are replaced (playlist routes)
SetPlaylist(s, pl) ==
    /\ Request
    /\ audio_stations[s].present
    /\ playlist_tracks[s] # pl
    /\ playlist_tracks' = [playlist_tracks EXCEPT ![s] = pl]
    /\ UNCHANGED <<audio_stations, now_playing, autoDJProcesses, liveDJConnections,
                   processes, timers, calls, pendingDeletes, last_connected,
                   playlistFiles, stream_history, sourceConnections, adminVars>>

\* the credential query without its test of is_active
DjRowsIgnoringActive(raw, pass) ==
    {d \in station_djs :
        /\ audio_stations[d.station_id].present
        /\ audio_stations[d.station_id].mount_point = StripSlash(raw)
        /\ d.stream_password = pass
        /\ d.can_stream}

\* the rows of the credential query of POST /api/audio/auth/dj
DjRows(raw, pass) ==
    {d \in station_djs :
        /\ audio_stations[d.station_id].present
        /\ audio_stations[d.station_id].mount_point = StripSlash(raw)
        /\ d.stream_password = pass
        /\ d.is_active /\ d.can_stream}

\* whether the accepting handler stops the Auto DJ
StopsOnConnect(s) == audio_stations[s].auto_dj_enabled

\* without a DJ row: 200 on the ICECAST_SOURCE_PASSWORD, and the media server lets the
\* source connect; 401 on any other password
SourceAccepted(raw, pass) ==
    IF pass = ICECAST_SOURCE_PASSWORD
    THEN [sourceConnections EXCEPT ![raw] = @ + 1]
    ELSE sourceConnections

\* POST /api/audio/auth/dj up to the await of UPDATE station_djs
LiveConnect(raw, pass) ==
    /\ Request
    /\ IF DjRows(raw, pass) = {}
       THEN /\ sourceConnections' = SourceAccepted(raw, pass)
            /\ UNCHANGED <<autoDJProcesses, processes, liveDJConnections, calls>>
       ELSE \E dj \in DjRows(raw, pass) :
              /\ UNCHANGED sourceConnections
              /\ IF StopsOnConnect(dj.station_id)
                 THEN StopAutoDJ(dj.station_id)
                 ELSE UNCHANGED <<autoDJProcesses, processes>>
              /\ liveDJConnections' =
                     [liveDJConnections EXCEPT ![raw] =
                         [stationId |-> dj.station_id, djId |-> dj.id]]
              /\ calls' = BagAdd(calls, [Call("connect", "last_connected", dj.station_id)
                                            EXCEPT !.dj = dj.id])
    /\ UNCHANGED <<audio_stations, playlist_tracks, now_playing, timers, pendingDeletes,
                   last_connected, playlistFiles, stream_history, adminVars>>

ConnectLastConnected(c) ==
    /\ c.op = "connect" /\ c.pc = "last_connected"
    /\ last_connected' = last_connected \cup {c.dj}
    /\ calls' = BagAdd(BagRemove(calls, c), [c EXCEPT !.pc = "now_playing"])
    /\ UNCHANGED <<audio_stations, playlist_tracks, now_playing, autoDJProcesses,
                   liveDJConnections, processes, timers, pendingDeletes, playlistFiles,
                   stream_history, requests, sourceConnections, adminVars>>

\* INSERT INTO now_playing ... ON CONFLICT DO UPDATE SET dj_id, is_live = true,
\* track_id = NULL; it fails once the station is gone
ConnectNowPlaying(c) ==
    /\ c.op = "connect" /\ c.pc = "now_playing"
    /\ now_playing' =
           IF audio_stations[c.station].present
           THEN [now_playing EXCEPT ![c.station] =
                    [present |-> TRUE, track_id |-> "none", dj_id |-> c.dj,
                     is_live |-> TRUE]]
           ELSE now_playing
    /\ calls' = BagRemove(calls, c)
    /\ UNCHANGED <<audio_stations, playlist_tracks, autoDJProcesses, liveDJConnections,
                   processes, timers, pendingDeletes, last_connected, playlistFiles,
                   stream_history, requests, sourceConnections, adminVars>>

\* mutant: the disconnect handler forgets every recorded connection
DisconnectedFromEveryMount(raw, origin) ==
    IF liveDJConnections[raw] # NoConn
    THEN /\ liveDJConnections' = [m \in RawMounts |-> NoConn]
         /\ calls' = BagAdd(calls, [Call("disconnect", "now_playing",
                                         liveDJConnections[raw].stationId)
                                        EXCEPT !.origin = origin])
    ELSE UNCHANGED <<liveDJConnections, calls>>

\* POST /api/audio/auth/dj-disconnect up to the await of DELETE FROM now_playing: the
\* handler knows the mount only. origin is history: whose source has disconnected
Disconnected(raw, origin) ==
    IF liveDJConnections[raw] # NoConn
    THEN /\ liveDJConnections' = [liveDJConnections EXCEPT ![raw] = NoConn]
         /\ calls' = BagAdd(calls, [Call("disconnect", "now_playing",
                                         liveDJConnections[raw].stationId)
                                        EXCEPT !.origin = origin])
    ELSE UNCHANGED <<liveDJConnections, calls>>

\* the notification that the source of a DJ on the mount has disconnected
LiveDisconnect(raw) ==
    /\ Request
    /\ liveDJConnections[raw] # NoConn
    /\ Disconnected(raw, "dj")
    /\ UNCHANGED <<audio_stations, playlist_tracks, now_playing, autoDJProcesses,
                   processes, timers, pendingDeletes, last_connected, playlistFiles,
                   stream_history, sourceConnections, adminVars>>

\* the notification that a source accepted on the ICECAST_SOURCE_PASSWORD has
\* disconnected from the mount
SourceDisconnect(raw) ==
    /\ Request
    /\ sourceConnections[raw] > 0
    /\ sourceConnections' = [sourceConnections EXCEPT ![raw] = @ - 1]
    /\ Disconnected(raw, "source")
    /\ UNCHANGED <<audio_stations, playlist_tracks, now_playing, autoDJProcesses,
                   processes, timers, pendingDeletes, last_connected, playlistFiles,
                   stream_history, adminVars>>

DisconnectNowPlaying(c) ==
    /\ c.op = "disconnect" /\ c.pc = "now_playing"
    /\ now_playing' = [now_playing EXCEPT ![c.station] = NoNP]
    /\ calls' = BagAdd(BagRemove(calls, c), [c EXCEPT !.pc = "check"])
    /\ UNCHANGED <<audio_stations, playlist_tracks, autoDJProcesses, liveDJConnections,
                   processes, timers, pendingDeletes, last_connected, playlistFiles,
                   stream_history, requests, sourceConnections, adminVars>>

\* SELECT auto_dj_enabled, then setTimeout(() => startAutoDJ(stationId), 2000)
DisconnectWithoutTimer(s) == timers

ArmDebounce(s) == IF Enabled(s) THEN BagAdd(timers, Timer("debounce", s)) ELSE timers

DisconnectCheck(c) ==
    /\ c.op = "disconnect" /\ c.pc = "check"
    /\ timers' = ArmDebounce(c.station)
    /\ calls' = BagRemove(calls, c)
    /\ UNCHANGED <<audio_stations, playlist_tracks, now_playing, autoDJProcesses,
                   liveDJConnections, processes, pendingDeletes, last_connected,
                   playlistFiles, stream_history, requests, sourceConnections, adminVars>>

\* a value the body of a request does not carry: req.body.pass is undefined
Undefined == "undefined"

\* SQL NULL of audio_stations.source_password as the driver returns it, and a JSON null
\* in the body of a request: both are null, and null === null
NoPassword == "null"

\* column source_password: a1 was created by POST /api/audio/stations ('cmc_' + random);
\* the row of b1 is older than the column, and the UPDATE of main that fills the column
\* has failed (its .catch ignores the error)
source_password == [s \in StationIds |-> IF s = "b1" THEN NoPassword ELSE "pw1"]

\* req.body.pass: a string, absent, or null (express.json and express.urlencoded)
AuthPasswords == Passwords \cup {Undefined, NoPassword}

\* req.body.mount as a sequence of its parts; <<>> is an absent mount
AuthMounts == {<<"/", "m1">>, <<"/", "m2">>, <<"m1">>, <<"/", "/", "m1">>, <<>>}

\* mount?.replace(/^\//, '') || ''
StripLeadingSlash(raw) == IF raw # <<>> /\ Head(raw) = "/" THEN Tail(raw) ELSE raw

\* SELECT id, source_password FROM audio_stations WHERE mount_point = $1
StationsAt(mountPoint) ==
    {s \in StationIds : audio_stations[s].present
                         /\ <<audio_stations[s].mount_point>> = mountPoint}

\* POST /api/audio/icecast-auth up to the await of its SELECT
IcecastAuth(raw, pass) ==
    /\ Request
    /\ calls' = BagAdd(calls, [Call("icecast_auth", "select", "none")
                                  EXCEPT !.raw = raw, !.pass = pass])
    /\ UNCHANGED <<audio_stations, playlist_tracks, now_playing, autoDJProcesses,
                   liveDJConnections, processes, timers, pendingDeletes, last_connected,
                   playlistFiles, stream_history, sourceConnections, adminVars>>

\* the header icecast-auth-user the handler sets once its SELECT has returned
AuthHeader(c) ==
    LET rows == StationsAt(StripLeadingSlash(c.raw))
    IN  IF rows = {} THEN "0"
        ELSE LET station == CHOOSE s \in rows : TRUE
             IN  IF c.pass = source_password[station] \/ c.pass = ICECAST_SOURCE_PASSWORD
                 THEN "1"
                 ELSE "0"

\* the header the catch of the handler sets
CaughtHeader == "0"

\* the SELECT returns and the handler answers 200 with the header AuthHeader(c)
IcecastAuthSelect(c) ==
    /\ c.op = "icecast_auth" /\ c.pc = "select"
    /\ calls' = BagRemove(calls, c)
    /\ UNCHANGED <<audio_stations, playlist_tracks, now_playing, autoDJProcesses,
                   liveDJConnections, processes, timers, pendingDeletes, last_connected,
                   playlistFiles, stream_history, requests, sourceConnections, adminVars>>

\* the SELECT rejects: one of the failures the environment has left; the catch answers
\* 200 with the header CaughtHeader
IcecastAuthThrows(c) ==
    /\ c.op = "icecast_auth" /\ c.pc = "select"
    /\ Event
    /\ calls' = BagRemove(calls, c)
    /\ UNCHANGED <<audio_stations, playlist_tracks, now_playing, autoDJProcesses,
                   liveDJConnections, processes, timers, pendingDeletes, last_connected,
                   playlistFiles, stream_history, sourceConnections, adminVars>>

(***************************************************************************)
(* Port allocator, station creation and deletion, start-up                 *)
(* (src/audio-streamer/src/index.ts)                                       *)
(***************************************************************************)
BASE_STREAM_PORT == 8001

\* const MAX_STREAM_PORT = 8100, scaled to a pool of PoolSize ports
MAX_STREAM_PORT == BASE_STREAM_PORT + PoolSize - 1

Ports == BASE_STREAM_PORT .. MAX_STREAM_PORT

\* station.id.substring(0, 8) in the container name: the first character here
ContainerName(id) == IF id \in {"a1", "a2"} THEN "icecast-station-a" ELSE "icecast-station-b"

ContainerNames == {ContainerName(id) : id \in StationIds}

\* state the live DJ handlers own, which no admin handler writes
liveVars == <<liveDJConnections, pendingDeletes, last_connected, playlistFiles,
              stream_history, sourceConnections>>

AdminRequest ==
    /\ main.pc = "listening"
    /\ Request

\* SELECT stream_port FROM audio_stations WHERE stream_port IS NOT NULL
UsedPorts ==
    {audio_stations[s].stream_port :
        s \in {t \in StationIds : /\ audio_stations[t].present
                                  /\ audio_stations[t].stream_port # NULL}}

\* the loop starting over at BASE_STREAM_PORT instead of throwing
NextAvailablePortWrapping(usedPorts) ==
    IF Ports \ usedPorts = {} THEN BASE_STREAM_PORT
    ELSE CHOOSE p \in Ports \ usedPorts : \A q \in Ports \ usedPorts : p <= q

\* the loop run from MAX_STREAM_PORT down
NextAvailablePortFromTop(usedPorts) ==
    IF Ports \ usedPorts = {} THEN NULL
    ELSE CHOOSE p \in Ports \ usedPorts : \A q \in Ports \ usedPorts : p >= q

\* the loop of getNextAvailablePort, for (port = BASE_STREAM_PORT; port <=
\* MAX_STREAM_PORT; port++); NULL stands for the Error it throws
RECURSIVE ScanPorts(_, _)
ScanPorts(port, usedPorts) ==
    IF port > MAX_STREAM_PORT THEN NULL
    ELSE IF port \notin usedPorts THEN port
    ELSE ScanPorts(port + 1, usedPorts)

NextAvailablePort(usedPorts) == ScanPorts(BASE_STREAM_PORT, usedPorts)

\* stream_port INTEGER UNIQUE: whether a row other than s may take the port
PortFreeUnchecked(port, s) == TRUE

PortFree(port, s) ==
    \A t \in StationIds \ {s} :
        ~(audio_stations[t].present /\ audio_stations[t].stream_port = port)

\* mount_point VARCHAR(255) UNIQUE NOT NULL
MountFree(mount) ==
    \A t \in StationIds :
        ~(audio_stations[t].present /\ audio_stations[t].mount_point = mount)

\* POST /api/audio/stations up to the await of getNextAvailablePort
CreateStation(mount) ==
    /\ AdminRequest
    /\ calls' = BagAdd(calls, [Call("create", "port", "none") EXCEPT !.mount = mount])
    /\ UNCHANGED <<audio_stations, playlist_tracks, now_playing, autoDJProcesses,
                   processes, timers, liveVars, adminVars>>

\* getNextAvailablePort returns a port or throws (the catch answers 500)
CreatePort(c) ==
    /\ c.op = "create" /\ c.pc = "port"
    /\ LET port == NextAvailablePort(UsedPorts)
       IN  calls' = IF port = NULL THEN BagRemove(calls, c)
                    ELSE BagAdd(BagRemove(calls, c),
                                [c EXCEPT !.pc = "insert", !.port = port])
    /\ UNCHANGED <<audio_stations, playlist_tracks, now_playing, autoDJProcesses,
                   processes, timers, liveVars, requests, adminVars>>

\* INSERT INTO audio_stations: a new id, or a unique violation (the catch answers 500)
CreateInsert(c) ==
    /\ c.op = "create" /\ c.pc = "insert"
    /\ IF PortFree(c.port, "none") /\ MountFree(c.mount)
       THEN \E id \in StationIds \ issued :
              /\ audio_stations' =
                     [audio_stations EXCEPT ![id] = StationRow(c.port, c.mount, TRUE)]
              /\ issued' = issued \cup {id}
              /\ calls' = BagAdd(BagRemove(calls, c),
                                 [c EXCEPT !.pc = "mount_point", !.station = id])
       ELSE /\ calls' = BagRemove(calls, c)
            /\ UNCHANGED <<audio_stations, issued>>
    /\ UNCHANGED <<playlist_tracks, now_playing, autoDJProcesses, processes, timers,
                   liveVars, requests, station_mount_points, station_playlists,
                   icecastContainers, docker, main>>

\* INSERT INTO station_mount_points; the foreign key fails once the station is gone
CreateMountPoint(c) ==
    /\ c.op = "create" /\ c.pc = "mount_point"
    /\ IF audio_stations[c.station].present
       THEN /\ station_mount_points' = station_mount_points \cup {c.station}
            /\ calls' = BagAdd(BagRemove(calls, c), [c EXCEPT !.pc = "playlist"])
       ELSE /\ calls' = BagRemove(calls, c)
            /\ UNCHANGED station_mount_points
    /\ UNCHANGED <<audio_stations, playlist_tracks, now_playing, autoDJProcesses,
                   processes, timers, liveVars, requests, station_playlists,
                   icecastContainers, docker, issued, main>>

\* INSERT INTO station_playlists (the default playlist)
CreatePlaylist(c) ==
    /\ c.op = "create" /\ c.pc = "playlist"
    /\ IF audio_stations[c.station].present
       THEN /\ station_playlists' = station_playlists \cup {c.station}
            /\ calls' = BagAdd(BagRemove(calls, c), [c EXCEPT !.pc = "icecast_rm"])
       ELSE /\ calls' = BagRemove(calls, c)
            /\ UNCHANGED station_playlists
    /\ UNCHANGED <<audio_stations, playlist_tracks, now_playing, autoDJProcesses,
                   processes, timers, liveVars, requests, station_mount_points,
                   icecastContainers, docker, issued, main>>

\* no container of that name; stale: the previous run of the streamer left one there
NoContainer == [port |-> NULL, stale |-> FALSE]

\* docker stop ... || true and docker rm ... || true left out of startIcecastForStation
DockerRemoveSkipped(name) == docker

\* docker stop and docker rm of the container name
DockerRemove(name) == [docker EXCEPT ![name].port = NULL]

\* docker run -d --name ... -p port:8000 fails on a name or a host port in use
RunSucceeds(name, port) ==
    /\ docker[name].port = NULL
    /\ \A n \in ContainerNames : docker[n].port # port

\* startIcecastForStation: the existing container is stopped and removed
CreateIcecastRemove(c) ==
    /\ c.op = "create" /\ c.pc = "icecast_rm"
    /\ docker' = DockerRemove(ContainerName(c.station))
    /\ calls' = BagAdd(BagRemove(calls, c), [c EXCEPT !.pc = "icecast_run"])
    /\ UNCHANGED <<audio_stations, playlist_tracks, now_playing, autoDJProcesses,
                   processes, timers, liveVars, requests, station_mount_points,
                   station_playlists, icecastContainers, issued, main>>

\* startIcecastForStation: docker run, icecastContainers.set; a failure is only logged
CreateIcecastRun(c) ==
    /\ c.op = "create" /\ c.pc = "icecast_run"
    /\ IF RunSucceeds(ContainerName(c.station), c.port)
       THEN /\ docker' = [docker EXCEPT ![ContainerName(c.station)].port = c.port]
            /\ icecastContainers' =
                   [icecastContainers EXCEPT ![c.station] = ContainerName(c.station)]
       ELSE UNCHANGED <<docker, icecastContainers>>
    /\ calls' = BagRemove(calls, c)
    /\ UNCHANGED <<audio_stations, playlist_tracks, now_playing, autoDJProcesses,
                   processes, timers, liveVars, requests, station_mount_points,
                   station_playlists, issued, main>>

\* DELETE /api/audio/stations/:id up to the first await of stopIcecastForStation
DeleteStation(s) ==
    /\ AdminRequest
    /\ s \in issued
    /\ StopAutoDJ(s)
    /\ calls' = BagAdd(calls, Call("delete", "docker", s))
    /\ UNCHANGED <<audio_stations, playlist_tracks, now_playing, timers, liveVars,
                   adminVars>>

\* stopIcecastForStation: docker stop, docker rm, icecastContainers.delete
DeleteDocker(c) ==
    /\ c.op = "delete" /\ c.pc = "docker"
    /\ docker' = DockerRemove(IF icecastContainers[c.station] # "none"
                              THEN icecastContainers[c.station]
                              ELSE ContainerName(c.station))
    /\ icecastContainers' = [icecastContainers EXCEPT ![c.station] = "none"]
    /\ calls' = BagAdd(BagRemove(calls, c), [c EXCEPT !.pc = "row"])
    /\ UNCHANGED <<audio_stations, playlist_tracks, now_playing, autoDJProcesses,
                   processes, timers, liveVars, requests, station_mount_points,
                   station_playlists, issued, main>>

\* DELETE FROM audio_stations, with the rows that reference it (ON DELETE CASCADE)
DeleteRow(c) ==
    /\ c.op = "delete" /\ c.pc = "row"
    /\ audio_stations' = [audio_stations EXCEPT ![c.station] = NoStation]
    /\ station_mount_points' = station_mount_points \ {c.station}
    /\ station_playlists' = station_playlists \ {c.station}
    /\ playlist_tracks' = [playlist_tracks EXCEPT ![c.station] = <<>>]
    /\ now_playing' = [now_playing EXCEPT ![c.station] = NoNP]
    /\ stream_history' = [stream_history EXCEPT ![c.station] = 0]
    /\ calls' = BagRemove(calls, c)
    /\ UNCHANGED <<autoDJProcesses, processes, timers, liveDJConnections,
                   pendingDeletes, last_connected, playlistFiles, sourceConnections,
                   requests, icecastContainers, docker, issued, main>>

\* mutant: the SELECT of the repair pass without WHERE stream_port IS NULL
WithoutPortUnfiltered == {s \in StationIds : audio_stations[s].present}

\* main: SELECT id FROM audio_stations WHERE stream_port IS NULL ORDER BY created_at
WithoutPort ==
    {s \in StationIds : audio_stations[s].present /\ audio_stations[s].stream_port = NULL}

WithPort ==
    {s \in StationIds : audio_stations[s].present /\ audio_stations[s].stream_port # NULL}

MainAt(pc, todo, port) == [pc |-> pc, todo |-> todo, port |-> port]

MainSelect ==
    /\ main.pc = "select"
    /\ \E q \in Perms(WithoutPort) :
          main' = MainAt(IF q = <<>> THEN "containers" ELSE "port", q, NULL)
    /\ UNCHANGED <<audio_stations, playlist_tracks, now_playing, autoDJProcesses,
                   processes, timers, calls, liveVars, requests, station_mount_points,
                   station_playlists, icecastContainers, docker, issued>>

\* main: getNextAvailablePort for the next station without a port; a throw ends main
MainPort ==
    /\ main.pc = "port"
    /\ LET port == NextAvailablePort(UsedPorts)
       IN  main' = IF port = NULL THEN MainAt("failed", <<>>, NULL)
                   ELSE MainAt("update", main.todo, port)
    /\ UNCHANGED <<audio_stations, playlist_tracks, now_playing, autoDJProcesses,
                   processes, timers, calls, liveVars, requests, station_mount_points,
                   station_playlists, icecastContainers, docker, issued>>

\* main: UPDATE audio_stations SET stream_port = $1 WHERE id = $2
MainUpdate ==
    /\ main.pc = "update"
    /\ LET s == Head(main.todo)
       IN  IF PortFree(main.port, s)
           THEN /\ audio_stations' =
                       [audio_stations EXCEPT ![s].stream_port =
                           IF audio_stations[s].present THEN main.port ELSE @]
                /\ main' = MainAt(IF Tail(main.todo) = <<>> THEN "containers" ELSE "port",
                                  Tail(main.todo), NULL)
           ELSE /\ main' = MainAt("failed", <<>>, NULL)
                /\ UNCHANGED audio_stations
    /\ UNCHANGED <<playlist_tracks, now_playing, autoDJProcesses, processes, timers,
                   calls, liveVars, requests, station_mount_points, station_playlists,
                   icecastContainers, docker, issued>>

\* main: SELECT ... WHERE is_active = true AND stream_port IS NOT NULL
MainContainers ==
    /\ main.pc = "containers"
    /\ \E q \in Perms(WithPort) :
          main' = MainAt(IF q = <<>> THEN "timers" ELSE "icecast_rm", q, NULL)
    /\ UNCHANGED <<audio_stations, playlist_tracks, now_playing, autoDJProcesses,
                   processes, timers, calls, liveVars, requests, station_mount_points,
                   station_playlists, icecastContainers, docker, issued>>

MainIcecastRemove ==
    /\ main.pc = "icecast_rm"
    /\ docker' = DockerRemove(ContainerName(Head(main.todo)))
    /\ main' = MainAt("icecast_run", main.todo, audio_stations[Head(main.todo)].stream_port)
    /\ UNCHANGED <<audio_stations, playlist_tracks, now_playing, autoDJProcesses,
                   processes, timers, calls, liveVars, requests, station_mount_points,
                   station_playlists, icecastContainers, issued>>

MainIcecastRun ==
    /\ main.pc = "icecast_run"
    /\ LET s == Head(main.todo)
       IN  IF RunSucceeds(ContainerName(s), main.port)
           THEN /\ docker' = [docker EXCEPT ![ContainerName(s)].port = main.port]
                /\ icecastContainers' = [icecastContainers EXCEPT ![s] = ContainerName(s)]
           ELSE UNCHANGED <<docker, icecastContainers>>
    /\ main' = MainAt(IF Tail(main.todo) = <<>> THEN "timers" ELSE "icecast_rm",
                      Tail(main.todo), NULL)
    /\ UNCHANGED <<audio_stations, playlist_tracks, now_playing, autoDJProcesses,
                   processes, timers, calls, liveVars, requests, station_mount_points,
                   station_playlists, issued>>

RECURSIVE StartupTimers(_)
\* main: setTimeout(() => startAutoDJ(station.id), 5000) for every enabled station
StartupTimers(S) ==
    IF S = {} THEN EmptyBag
    ELSE LET s == CHOOSE t \in S : TRUE
         IN  BagAdd(StartupTimers(S \ {s}), Timer("startup", s))

MainTimers ==
    /\ main.pc = "timers"
    /\ timers' = StartupTimers({s \in StationIds : Enabled(s)})
    /\ main' = MainAt("listening", <<>>, NULL)
    /\ UNCHANGED <<audio_stations, playlist_tracks, now_playing, autoDJProcesses,
                   processes, calls, liveVars, requests, station_mount_points,
                   station_playlists, icecastContainers, docker, issued>>

(***************************************************************************)
(* Initial states and next-state relations                                 *)
(***************************************************************************)
\* the reconciler before its first cycle, with no stream rows
SyncAtRest ==
    /\ knownActiveStreams = <<>>
    /\ streams = [k \in Keys |-> NoRow]
    /\ streamState = [k \in Keys |-> "none"]
    /\ bus = <<>>
    /\ now = 2
    /\ cycles = EmptyBag
    /\ lastCycle = NoCycle

\* the in-memory state of the audio streamer when its process starts
StreamerAtRest ==
    /\ now_playing = [s \in StationIds |-> NoNP]
    /\ autoDJProcesses = [s \in StationIds |-> NoProc]
    /\ liveDJConnections = [m \in RawMounts |-> NoConn]
    /\ processes = <<>>
    /\ calls = EmptyBag
    /\ pendingDeletes = [s \in StationIds |-> 0]
    /\ last_connected = {}
    /\ playlistFiles = [s \in StationIds |-> <<>>]
    /\ stream_history = [s \in StationIds |-> 0]
    /\ sourceConnections = [m \in RawMounts |-> 0]

InitSync ==
    /\ knownActiveStreams = <<>>
    /\ streams \in {r \in [Keys -> {NoRow, IdleRow(FALSE), IdleRow(TRUE), LiveRow(FALSE)}] :
                        /\ r["k1"] \in {IdleRow(FALSE), LiveRow(FALSE)}
                        /\ r["k2"] \in {NoRow, IdleRow(TRUE)}}
    /\ streamState = [k \in Keys |-> "none"]
    /\ bus = <<>>
    /\ now = 2
    /\ cycles = EmptyBag
    /\ lastCycle = NoCycle
    /\ StreamerAtRest
    /\ requests = 0
    /\ audio_stations = [s \in StationIds |-> NoStation]
    /\ playlist_tracks = [s \in StationIds |-> <<>>]
    /\ timers = EmptyBag
    /\ station_mount_points = {}
    /\ station_playlists = {}
    /\ icecastContainers = [s \in StationIds |-> "none"]
    /\ docker = [n \in ContainerNames |-> NoContainer]
    /\ issued = {}
    /\ main = MainAt("select", <<>>, NULL)

SyncFetchFails == \E resp \in FailedResponses : SyncFetchFailed(resp)

SyncFetches ==
    \E data \in OriginResponses : \E q \in Perms(ActiveStreamKeys(data)) : SyncFetchOk(data, q)

NextSync ==
    \/ SyncFetchFails /\ UNCHANGED <<djVars, adminVars>>
    \/ SyncFetches /\ UNCHANGED <<djVars, adminVars>>
    \/ \E c \in DOMAIN cycles : HandleStartUpdate(c) /\ UNCHANGED <<djVars, adminVars>>
    \/ \E c \in DOMAIN cycles : HandleStartState(c) /\ UNCHANGED <<djVars, adminVars>>
    \/ \E c \in DOMAIN cycles : HandleStartPublish(c) /\ UNCHANGED <<djVars, adminVars>>
    \/ \E c \in DOMAIN cycles : HandleStartRecording(c) /\ UNCHANGED <<djVars, adminVars>>
    \/ \E c \in DOMAIN cycles : HandleEndUpdate(c) /\ UNCHANGED <<djVars, adminVars>>
    \/ \E c \in DOMAIN cycles : HandleEndRecording(c) /\ UNCHANGED <<djVars, adminVars>>
    \/ \E c \in DOMAIN cycles : HandleEndState(c) /\ UNCHANGED <<djVars, adminVars>>
    \/ \E c \in DOMAIN cycles : HandleEndPublish(c) /\ UNCHANGED <<djVars, adminVars>>

SpecSync == InitSync /\ [][NextSync]_vars

\* the reconciler after the cycles that confirmed k2 live, when the origin begins to
\* report k1, whose row is idle, and goes on reporting both
InitFaults ==
    /\ knownActiveStreams = <<"k2">>
    /\ \E rec1, rec2 \in BOOLEAN :
          streams = [k \in Keys |-> IF k = "k1" THEN IdleRow(rec1) ELSE LiveRow(rec2)]
    /\ streamState = [k \in Keys |-> IF k = "k2" THEN "live" ELSE "none"]
    /\ bus = <<[topic |-> "stream:start", key |-> "k2"]>>
    /\ now = 2
    /\ cycles = EmptyBag
    /\ lastCycle = [how |-> "alone", active |-> {"k2"}, repeat |-> FALSE]
    /\ StreamerAtRest
    /\ requests = MaxFaults
    /\ audio_stations = [s \in StationIds |-> NoStation]
    /\ playlist_tracks = [s \in StationIds |-> <<>>]
    /\ timers = EmptyBag
    /\ station_mount_points = {}
    /\ station_playlists = {}
    /\ icecastContainers = [s \in StationIds |-> "none"]
    /\ docker = [n \in ContainerNames |-> NoContainer]
    /\ issued = {}
    /\ main = MainAt("select", <<>>, NULL)

\* a tick whose fetch answers, the origin reporting every stream as publishing
SyncFetchesReporting ==
    \E q \in Perms(Keys) : SyncFetchOk([k \in Keys |-> "publishing"], q)

\* the steps of handleStreamStart whose awaited call succeeds
StartSteps ==
    \/ \E c \in DOMAIN cycles : HandleStartUpdate(c) /\ UNCHANGED <<djVars, adminVars>>
    \/ \E c \in DOMAIN cycles : HandleStartState(c) /\ UNCHANGED <<djVars, adminVars>>
    \/ \E c \in DOMAIN cycles : HandleStartPublish(c) /\ UNCHANGED <<djVars, adminVars>>
    \/ \E c \in DOMAIN cycles : HandleStartRecording(c) /\ UNCHANGED <<djVars, adminVars>>

\* an awaited call of handleStreamStart rejects: one of the failures the environment
\* has left
StartThrows ==
    \E c \in DOMAIN cycles :
        HandleStartThrows(c) /\ Event /\ UNCHANGED <<djState, adminVars>>

NextFaults ==
    \/ SyncFetchesReporting /\ UNCHANGED <<djVars, adminVars>>
    \/ StartSteps
    \/ StartThrows

SpecFaults == InitFaults /\ [][NextFaults]_vars

\* setInterval keeps calling syncStreamStatus, and a call whose awaited statement
\* completes goes on
FairSpecFaults ==
    /\ SpecFaults
    /\ WF_vars(SyncFetchesReporting /\ UNCHANGED <<djVars, adminVars>>)
    /\ WF_vars(StartSteps)

\* InitSync with failures left to happen
InitSyncFaults ==
    /\ knownActiveStreams = <<>>
    /\ streams \in {r \in [Keys -> {NoRow, IdleRow(FALSE), IdleRow(TRUE), LiveRow(FALSE)}] :
                        /\ r["k1"] \in {IdleRow(FALSE), LiveRow(FALSE)}
                        /\ r["k2"] \in {NoRow, IdleRow(TRUE)}}
    /\ streamState = [k \in Keys |-> "none"]
    /\ bus = <<>>
    /\ now = 2
    /\ cycles = EmptyBag
    /\ lastCycle = NoCycle
    /\ StreamerAtRest
    /\ requests = MaxFaults
    /\ audio_stations = [s \in StationIds |-> NoStation]
    /\ playlist_tracks = [s \in StationIds |-> <<>>]
    /\ timers = EmptyBag
    /\ station_mount_points = {}
    /\ station_playlists = {}
    /\ icecastContainers = [s \in StationIds |-> "none"]
    /\ docker = [n \in ContainerNames |-> NoContainer]
    /\ issued = {}
    /\ main = MainAt("select", <<>>, NULL)

\* an awaited call of handleStreamEnd rejects: one of the failures the environment has
\* left
EndThrows ==
    \E c \in DOMAIN cycles :
        HandleEndThrows(c) /\ Event /\ UNCHANGED <<djState, adminVars>>

\* the reconciler with handlers whose awaited calls may reject
NextSyncFaults ==
    \/ NextSync
    \/ StartThrows
    \/ EndThrows

SpecSyncFaults == InitSyncFaults /\ [][NextSyncFaults]_vars

\* the reconciler's process starts, with an empty knownActiveStreams, while the row of
\* k1 is live from before: the origin has lost the stream and does not report it
InitDrift ==
    /\ knownActiveStreams = <<>>
    /\ \E rec \in BOOLEAN :
          streams = [k \in Keys |-> IF k = "k1" THEN LiveRow(rec) ELSE IdleRow(TRUE)]
    /\ streamState = [k \in Keys |-> "none"]
    /\ bus = <<>>
    /\ now = 2
    /\ cycles = EmptyBag
    /\ lastCycle = NoCycle
    /\ StreamerAtRest
    /\ requests = MaxRequests
    /\ audio_stations = [s \in StationIds |-> NoStation]
    /\ playlist_tracks = [s \in StationIds |-> <<>>]
    /\ timers = EmptyBag
    /\ station_mount_points = {}
    /\ station_playlists = {}
    /\ icecastContainers = [s \in StationIds |-> "none"]
    /\ docker = [n \in ContainerNames |-> NoContainer]
    /\ issued = {}
    /\ main = MainAt("select", <<>>, NULL)

\* a tick whose fetch answers without k1 among the publishing streams; an answer that
\* differs from what the reconciler knows is one of the changes the origin has left
SyncFetchesWithoutK1 ==
    \E data \in OriginResponses : \E q \in Perms(ActiveStreamKeys(data)) :
        /\ data["k1"] # "publishing"
        /\ SyncFetchOk(data, q)
        /\ IF ActiveStreamKeys(data) # KnownSet(knownActiveStreams)
           THEN Event
           ELSE UNCHANGED requests

\* the steps of handleStreamEnd
EndSteps ==
    \/ \E c \in DOMAIN cycles : HandleEndUpdate(c) /\ UNCHANGED <<djVars, adminVars>>
    \/ \E c \in DOMAIN cycles : HandleEndRecording(c) /\ UNCHANGED <<djVars, adminVars>>
    \/ \E c \in DOMAIN cycles : HandleEndState(c) /\ UNCHANGED <<djVars, adminVars>>
    \/ \E c \in DOMAIN cycles : HandleEndPublish(c) /\ UNCHANGED <<djVars, adminVars>>

NextDrift ==
    \/ SyncFetchesWithoutK1 /\ UNCHANGED <<djState, adminVars>>
    \/ StartSteps
    \/ EndSteps

SpecDrift == InitDrift /\ [][NextDrift]_vars

\* setInterval keeps calling syncStreamStatus, every fetch answers and every awaited
\* statement completes
FairSpecDrift ==
    /\ SpecDrift
    /\ WF_vars(SyncFetchesWithoutK1 /\ UNCHANGED <<djState, adminVars>>)
    /\ WF_vars(StartSteps)
    /\ WF_vars(EndSteps)

\* the streamer listens; station a1 exists on mount m1, station b1 may exist on mount
\* m2; Auto DJ is off
InitAuth ==
    /\ SyncAtRest
    /\ StreamerAtRest
    /\ requests = MaxRequests
    /\ \E rows \in {{"a1"}, {"a1", "b1"}} :
          /\ audio_stations =
                 [s \in StationIds |->
                     IF s \notin rows THEN NoStation
                     ELSE IF s = "a1" THEN StationRow(BASE_STREAM_PORT, "m1", FALSE)
                     ELSE StationRow(BASE_STREAM_PORT + 1, "m2", FALSE)]
          /\ station_mount_points = rows
          /\ station_playlists = rows
          /\ icecastContainers =
                 [s \in StationIds |-> IF s \in rows THEN ContainerName(s) ELSE "none"]
          /\ docker = [n \in ContainerNames |->
                          IF \E s \in rows : ContainerName(s) = n
                          THEN [NoContainer EXCEPT !.port = IF n = ContainerName("a1")
                                                            THEN BASE_STREAM_PORT
                                                            ELSE BASE_STREAM_PORT + 1]
                          ELSE NoContainer]
          /\ issued = rows
    /\ playlist_tracks = [s \in StationIds |-> <<>>]
    /\ timers = EmptyBag
    /\ main = MainAt("listening", <<>>, NULL)

\* the source-authentication hook alone
NextAuth ==
    \/ \E raw \in AuthMounts : \E pass \in AuthPasswords :
          IcecastAuth(raw, pass) /\ UNCHANGED syncVars
    \/ \E c \in DOMAIN calls : IcecastAuthSelect(c) /\ UNCHANGED syncVars
    \/ \E c \in DOMAIN calls : IcecastAuthThrows(c) /\ UNCHANGED syncVars

SpecAuth == InitAuth /\ [][NextAuth]_vars

\* the streamer after main() has run for one station: its container runs, its start-up
\* timer is armed if Auto DJ is enabled, the server listens
InitDJ ==
    /\ SyncAtRest
    /\ StreamerAtRest
    /\ requests = MaxRequests
    /\ \E enabled \in BOOLEAN :
          /\ audio_stations =
                 [s \in StationIds |-> IF s = "a1"
                                       THEN StationRow(BASE_STREAM_PORT, "m1", enabled)
                                       ELSE NoStation]
          /\ timers = IF enabled THEN BagAdd(EmptyBag, Timer("startup", "a1")) ELSE EmptyBag
    /\ \E pl \in Playlists :
          playlist_tracks = [s \in StationIds |-> IF s = "a1" THEN pl ELSE <<>>]
    /\ station_mount_points = {"a1"}
    /\ station_playlists = {"a1"}
    /\ icecastContainers = [s \in StationIds |-> IF s = "a1" THEN ContainerName(s) ELSE "none"]
    /\ docker = [n \in ContainerNames |->
                    [NoContainer EXCEPT !.port = IF n = ContainerName("a1")
                                                 THEN BASE_STREAM_PORT ELSE NULL]]
    /\ issued = {"a1"}
    /\ main = MainAt("listening", <<>>, NULL)

\* steps the streamer takes by itself: continuations, timers, the exit of a killed process
DJInternal ==
    \/ \E t \in DOMAIN timers : TimerFires(t) /\ UNCHANGED syncVars
    \/ \E c \in DOMAIN calls : RestartCheck(c) /\ UNCHANGED syncVars
    \/ \E c \in DOMAIN calls : StartStation(c) /\ UNCHANGED syncVars
    \/ \E c \in DOMAIN calls : StartTracks(c) /\ UNCHANGED syncVars
    \/ \E c \in DOMAIN calls : StartNowPlaying(c) /\ UNCHANGED syncVars
    \/ \E p \in DOMAIN processes : ProcessExit(p) /\ UNCHANGED syncVars
    \/ \E s \in StationIds : PendingDelete(s) /\ UNCHANGED syncVars
    \/ \E c \in DOMAIN calls : StopKill(c) /\ UNCHANGED syncVars
    \/ \E c \in DOMAIN calls : StopNowPlaying(c) /\ UNCHANGED syncVars
    \/ \E c \in DOMAIN calls : ConnectLastConnected(c) /\ UNCHANGED syncVars
    \/ \E c \in DOMAIN calls : ConnectNowPlaying(c) /\ UNCHANGED syncVars
    \/ \E c \in DOMAIN calls : DisconnectNowPlaying(c) /\ UNCHANGED syncVars
    \/ \E c \in DOMAIN calls : DisconnectCheck(c) /\ UNCHANGED syncVars

\* requests and events that reach the streamer from outside
DJRequests ==
    \/ \E s \in StationIds : ManualStart(s) /\ UNCHANGED syncVars
    \/ \E s \in StationIds : ManualStop(s) /\ UNCHANGED syncVars
    \/ \E s \in StationIds : \E enabled \in BOOLEAN :
          UpdateStation(s, enabled) /\ UNCHANGED syncVars
    \/ \E s \in StationIds : \E pl \in Playlists : SetPlaylist(s, pl) /\ UNCHANGED syncVars
    \/ \E raw \in RawMounts : \E pass \in Passwords :
          LiveConnect(raw, pass) /\ UNCHANGED syncVars
    \/ \E raw \in RawMounts : LiveDisconnect(raw) /\ UNCHANGED syncVars
    \/ \E raw \in RawMounts : SourceDisconnect(raw) /\ UNCHANGED syncVars
    \/ \E p \in DOMAIN processes : ProcessCrash(p) /\ UNCHANGED syncVars

NextDJ == DJInternal \/ DJRequests

SpecDJ == InitDJ /\ [][NextDJ]_vars

\* station a1 on the air: startAutoDJ has run to its end for it, the encoder runs and is
\* registered, no DJ is connected; auto_dj_enabled is as a later PUT has left it
InitStop ==
    /\ SyncAtRest
    /\ requests = MaxRequests
    /\ \E enabled \in BOOLEAN :
          audio_stations =
              [s \in StationIds |-> IF s = "a1"
                                    THEN StationRow(BASE_STREAM_PORT, "m1", enabled)
                                    ELSE NoStation]
    /\ playlist_tracks = [s \in StationIds |-> IF s = "a1" THEN <<"t1", "t2">> ELSE <<>>]
    /\ playlistFiles = [s \in StationIds |-> IF s = "a1" THEN <<"t1", "t2">> ELSE <<>>]
    /\ processes = <<[station |-> "a1", state |-> "running", origin |-> "startup",
                      underLive |-> FALSE, enabledAtFire |-> TRUE]>>
    /\ autoDJProcesses = [s \in StationIds |-> IF s = "a1" THEN 1 ELSE NoProc]
    /\ now_playing = [s \in StationIds |->
                         IF s = "a1" THEN [NoNP EXCEPT !.present = TRUE, !.track_id = "t1"]
                         ELSE NoNP]
    /\ liveDJConnections = [m \in RawMounts |-> NoConn]
    /\ sourceConnections = [m \in RawMounts |-> 0]
    /\ timers = EmptyBag
    /\ calls = EmptyBag
    /\ pendingDeletes = [s \in StationIds |-> 0]
    /\ last_connected = {}
    /\ stream_history = [s \in StationIds |-> 0]
    /\ station_mount_points = {"a1"}
    /\ station_playlists = {"a1"}
    /\ icecastContainers = [s \in StationIds |-> IF s = "a1" THEN ContainerName(s) ELSE "none"]
    /\ docker = [n \in ContainerNames |->
                    [NoContainer EXCEPT !.port = IF n = ContainerName("a1")
                                                 THEN BASE_STREAM_PORT ELSE NULL]]
    /\ issued = {"a1"}
    /\ main = MainAt("listening", <<>>, NULL)

\* the streamer when the only requests it receives are POST /api/audio/stations/:id/stop:
\* the stop handler, the exit of the process it signals, and what the exit handler and
\* its restart timer do by themselves
NextStop ==
    \/ \E s \in StationIds : ManualStop(s) /\ UNCHANGED syncVars
    \/ \E c \in DOMAIN calls : StopKill(c) /\ UNCHANGED syncVars
    \/ \E c \in DOMAIN calls : StopNowPlaying(c) /\ UNCHANGED syncVars
    \/ \E p \in DOMAIN processes : ProcessExit(p) /\ UNCHANGED syncVars
    \/ \E s \in StationIds : PendingDelete(s) /\ UNCHANGED syncVars
    \/ \E t \in DOMAIN timers : TimerFires(t) /\ UNCHANGED syncVars
    \/ \E c \in DOMAIN calls : RestartCheck(c) /\ UNCHANGED syncVars
    \/ \E c \in DOMAIN calls : StartStation(c) /\ UNCHANGED syncVars
    \/ \E c \in DOMAIN calls : StartTracks(c) /\ UNCHANGED syncVars
    \/ \E c \in DOMAIN calls : StartNowPlaying(c) /\ UNCHANGED syncVars

SpecStop == InitStop /\ [][NextStop]_vars

\* SpecDJ from the start-up of a station that has tracks to play
InitLive ==
    /\ InitDJ
    /\ playlist_tracks["a1"] = <<"t1", "t2">>

\* the event loop runs every continuation that is ready, every timer fires, and a
\* process that was sent SIGTERM exits
FairSpecLive == InitLive /\ [][NextDJ]_vars /\ WF_vars(DJInternal)

\* a container the previous run of the streamer left behind, on a port of the pool
Leftovers == {[port |-> p, stale |-> TRUE] : p \in Ports}

\* the streamer's process starts against a database with stations of an older version;
\* its registry of containers is empty, the docker daemon may still run containers of
\* the previous run
InitPorts ==
    /\ SyncAtRest
    /\ StreamerAtRest
    /\ requests = MaxAdmin
    /\ audio_stations \in
          {r \in [StationIds -> {NoStation, StationRow(NULL, "m1", TRUE),
                                 StationRow(BASE_STREAM_PORT, "m1", TRUE),
                                 StationRow(MAX_STREAM_PORT, "m1", FALSE),
                                 StationRow(NULL, "m2", TRUE)}] :
              /\ r["a1"].mount_point \in {"none", "m1"}
              /\ r["a2"] \in {NoStation, StationRow(NULL, "m2", TRUE)}
              /\ r["b1"] = NoStation /\ r["b2"] = NoStation}
    /\ playlist_tracks = [s \in StationIds |-> <<>>]
    /\ timers = EmptyBag
    /\ station_mount_points = {s \in StationIds : audio_stations[s].present}
    /\ station_playlists = {s \in StationIds : audio_stations[s].present}
    /\ icecastContainers = [s \in StationIds |-> "none"]
    /\ docker \in {d \in [ContainerNames -> {NoContainer} \cup Leftovers] :
                      \A n, m \in ContainerNames :
                          (n # m /\ d[n].port # NULL) => d[n].port # d[m].port}
    /\ issued = {s \in StationIds : audio_stations[s].present}
    /\ main = MainAt("select", <<>>, NULL)

NextPorts ==
    \/ MainSelect /\ UNCHANGED syncVars
    \/ MainPort /\ UNCHANGED syncVars
    \/ MainUpdate /\ UNCHANGED syncVars
    \/ MainContainers /\ UNCHANGED syncVars
    \/ MainIcecastRemove /\ UNCHANGED syncVars
    \/ MainIcecastRun /\ UNCHANGED syncVars
    \/ MainTimers /\ UNCHANGED syncVars
    \/ \E mount \in Mounts : CreateStation(mount) /\ UNCHANGED syncVars
    \/ \E c \in DOMAIN calls : CreatePort(c) /\ UNCHANGED syncVars
    \/ \E c \in DOMAIN calls : CreateInsert(c) /\ UNCHANGED syncVars
    \/ \E c \in DOMAIN calls : CreateMountPoint(c) /\ UNCHANGED syncVars
    \/ \E c \in DOMAIN calls : CreatePlaylist(c) /\ UNCHANGED syncVars
    \/ \E c \in DOMAIN calls : CreateIcecastRemove(c) /\ UNCHANGED syncVars
    \/ \E c \in DOMAIN calls : CreateIcecastRun(c) /\ UNCHANGED syncVars
    \/ \E s \in StationIds : DeleteStation(s) /\ UNCHANGED syncVars
    \/ \E c \in DOMAIN calls : DeleteDocker(c) /\ UNCHANGED syncVars
    \/ \E c \in DOMAIN calls : DeleteRow(c) /\ UNCHANGED syncVars

SpecPorts == InitPorts /\ [][NextPorts]_vars

\* the streamer after main() has run for two stations with Auto DJ enabled and tracks
\* to play: both containers run, both start-up timers are armed, the server listens
InitStations ==
    /\ SyncAtRest
    /\ StreamerAtRest
    /\ requests = MaxStationRequests
    /\ audio_stations =
           [s \in StationIds |->
               IF s = "a1" THEN StationRow(BASE_STREAM_PORT, "m1", TRUE)
               ELSE IF s = "b1" THEN StationRow(BASE_STREAM_PORT + 1, "m2", TRUE)
               ELSE NoStation]
    /\ timers = StartupTimers({"a1", "b1"})
    /\ playlist_tracks =
           [s \in StationIds |-> IF s \in {"a1", "b1"} THEN <<"t1", "t2">> ELSE <<>>]
    /\ station_mount_points = {"a1", "b1"}
    /\ station_playlists = {"a1", "b1"}
    /\ icecastContainers =
           [s \in StationIds |-> IF s \in {"a1", "b1"} THEN ContainerName(s) ELSE "none"]
    /\ docker = [n \in ContainerNames |->
                    [NoContainer EXCEPT !.port = IF n = ContainerName("a1")
                                                 THEN BASE_STREAM_PORT
                                                 ELSE BASE_STREAM_PORT + 1]]
    /\ issued = {"a1", "b1"}
    /\ main = MainAt("listening", <<>>, NULL)

\* the Auto DJ and live DJ handlers, and the deletion of stations
NextStations ==
    \/ NextDJ
    \/ \E s \in StationIds : DeleteStation(s) /\ UNCHANGED syncVars
    \/ \E c \in DOMAIN calls : DeleteDocker(c) /\ UNCHANGED syncVars
    \/ \E c \in DOMAIN calls : DeleteRow(c) /\ UNCHANGED syncVars

SpecStations == InitStations /\ [][NextStations]_vars

\* two stations without Auto DJ after the DJs d1 and d3 have connected to them and
\* the accepting handlers have completed
InitHooks ==
    /\ SyncAtRest
    /\ requests = MaxRequests
    /\ audio_stations =
           [s \in StationIds |->
               IF s = "a1" THEN StationRow(BASE_STREAM_PORT, "m1", FALSE)
               ELSE IF s = "b1" THEN StationRow(BASE_STREAM_PORT + 1, "m2", FALSE)
               ELSE NoStation]
    /\ timers = EmptyBag
    /\ playlist_tracks =
           [s \in StationIds |-> IF s \in {"a1", "b1"} THEN <<"t1", "t2">> ELSE <<>>]
    /\ station_mount_points = {"a1", "b1"}
    /\ station_playlists = {"a1", "b1"}
    /\ icecastContainers =
           [s \in StationIds |-> IF s \in {"a1", "b1"} THEN ContainerName(s) ELSE "none"]
    /\ docker = [n \in ContainerNames |->
                    [NoContainer EXCEPT !.port = IF n = ContainerName("a1")
                                                 THEN BASE_STREAM_PORT
                                                 ELSE BASE_STREAM_PORT + 1]]
    /\ issued = {"a1", "b1"}
    /\ main = MainAt("listening", <<>>, NULL)
    /\ autoDJProcesses = [s \in StationIds |-> NoProc]
    /\ processes = <<>>
    /\ calls = EmptyBag
    /\ pendingDeletes = [s \in StationIds |-> 0]
    /\ playlistFiles = [s \in StationIds |-> <<>>]
    /\ stream_history = [s \in StationIds |-> 0]
    /\ sourceConnections = [m \in RawMounts |-> 0]
    /\ liveDJConnections =
           [m \in RawMounts |-> IF m = <<"/", "m1">> THEN [stationId |-> "a1", djId |-> "d1"]
                                ELSE [stationId |-> "b1", djId |-> "d3"]]
    /\ last_connected = {"d1", "d3"}
    /\ now_playing =
           [s \in StationIds |->
               IF s = "a1" THEN [present |-> TRUE, track_id |-> "none", dj_id |-> "d1",
                                 is_live |-> TRUE]
               ELSE IF s = "b1" THEN [present |-> TRUE, track_id |-> "none",
                                      dj_id |-> "d3", is_live |-> TRUE]
               ELSE NoNP]

\* the Auto DJ and live DJ handlers from two stations with a live DJ each
SpecHooks == InitHooks /\ [][NextDJ]_vars


(***************************************************************************)
(* Claims about the reconciler, checked under SpecSync.                    *)
(***************************************************************************)
RECURSIVE CountIn(_, _)
\* how often x occurs in the sequence s
CountIn(s, x) == IF s = <<>> THEN 0 ELSE (IF Head(s) = x THEN 1 ELSE 0) + CountIn(Tail(s), x)

BusCount(b, topic, k) == CountIn(b, [topic |-> topic, key |-> k])

\* the topics a handler call of cycle c has published once this step is over
SentAfter(c) == c.sent \o [j \in 1..(Len(bus') - Len(bus)) |-> bus'[Len(bus) + j].topic]

\* this step is the return of a handleStreamStart call of c whose UPDATE found the row
MatchedStartReturns(c) ==
    \/ c.pc = "start_publish" /\ ~c.rec /\ HandleStartPublish(c)
    \/ c.pc = "start_recording" /\ HandleStartRecording(c)

\* this step is the return of a handleStreamEnd call of c whose UPDATE found the row
MatchedEndReturns(c) == c.pc = "end_publish" /\ HandleEndPublish(c)

\* the fetch of a cycle that runs alone answers the active set of the cycle that
\* finished alone right before it
RepeatsLastCycle(data) ==
    /\ cycles = EmptyBag
    /\ lastCycle.how = "alone"
    /\ lastCycle.active = ActiveStreamKeys(data)

\* C5: a cycle run against the active set of the previous successful cycle calls no
\* handler: it persists nothing, publishes nothing and leaves knownActiveStreams as it was
C5_RepeatedCycleChangesNothing ==
    [][\A data \in OriginResponses : \A q \in Perms(ActiveStreamKeys(data)) :
          (RepeatsLastCycle(data) /\ SyncFetchOk(data, q))
              => (UNCHANGED <<observed, now>> /\ cycles' = EmptyBag)]_vars

\* a second cycle on an unchanged, non-empty active set has finished while a stream is live
C5_Witness ==
    /\ lastCycle.how = "alone"
    /\ lastCycle.repeat
    /\ \E k \in lastCycle.active : streams[k].status = "live" /\ streams[k].actual_start > 1

\* C6: a handleStreamStart call whose UPDATE finds the row not live publishes exactly one
\* stream:start and, in a cycle running alone, leaves the row live with actual_start
\* set; actual_start, once set, is never changed
C6_StartDetection ==
    [][/\ \A c \in DOMAIN cycles :
            MatchedStartReturns(c) =>
                /\ CountIn(SentAfter(c), "stream:start") = 1
                /\ c.solo => /\ streams'[c.cur].status = "live"
                             /\ streams'[c.cur].actual_start # NULL
       /\ \A k \in Keys :
            streams[k].actual_start # NULL => streams'[k].actual_start = streams[k].actual_start
       /\ \A k \in Keys :
            (streams[k].status # "live" /\ streams'[k].status = "live")
                => streams'[k].actual_start # NULL]_vars

\* a stream the reconciler started, ended and detected again: it is live, known, and
\* its actual_start is still the one of the first detection
C6_Witness ==
    \E k \in Keys :
        /\ streams[k].status = "live"
        /\ k \in KnownSet(knownActiveStreams)
        /\ streams[k].actual_start > 1
        /\ streams[k].actual_end > streams[k].actual_start
        /\ BusCount(bus, "stream:start", k) = 2
        /\ cycles = EmptyBag

\* C7: a handleStreamEnd call whose UPDATE finds the row live publishes exactly one
\* stream:stop and removes the key from knownActiveStreams; in a cycle running alone it
\* leaves the row ended with actual_end set and the stream state cleared
C7_EndDetection ==
    [][/\ \A c \in DOMAIN cycles :
            MatchedEndReturns(c) =>
                /\ CountIn(SentAfter(c), "stream:stop") = 1
                /\ c.cur \notin KnownSet(knownActiveStreams')
                /\ c.solo => /\ streams'[c.cur].status = "ended"
                             /\ streams'[c.cur].actual_end # NULL
                             /\ streamState'[c.cur] = "none"
       /\ \A k \in Keys :
            (streams[k].status = "live" /\ streams'[k].status = "ended")
                => streams'[k].actual_end # NULL]_vars

\* a stream the reconciler started and then ended
C7_Witness ==
    \E k \in Keys :
        /\ streams[k].status = "ended"
        /\ streams[k].actual_end > streams[k].actual_start
        /\ streams[k].actual_start > 1
        /\ streamState[k] = "none"
        /\ k \notin KnownSet(knownActiveStreams)
        /\ BusCount(bus, "stream:stop", k) = 1
        /\ cycles = EmptyBag

\* C8: on the bus every stream:stop of a stream comes after a recording:stop of its own:
\* up to any notification, a stream has at least as many recording:stop as stream:stop
C8_RecordingStopFirst ==
    \A n \in 1..Len(bus) : \A k \in Keys :
        BusCount(SubSeq(bus, 1, n), "recording:stop", k)
            >= BusCount(SubSeq(bus, 1, n), "stream:stop", k)

\* a stream end has published both notifications
C8_Witness ==
    \E k \in Keys :
        /\ BusCount(bus, "stream:stop", k) = 1
        /\ BusCount(bus, "recording:stop", k) = 1

\* C9: the step of a cycle whose origin query fails changes no known key, row, stream
\* state or timestamp, publishes nothing and leaves no cycle behind to act later
C9_FailedCycleChangesNothing ==
    [][(lastCycle'.how = "failed" /\ lastCycle' # lastCycle)
          => (UNCHANGED <<observed, now>> /\ BagSize(cycles') = BagSize(cycles))]_vars

\* a cycle has failed while a stream was known and live, and it is still known and live
C9_Witness ==
    /\ lastCycle.how = "failed"
    /\ \E k \in KnownSet(knownActiveStreams) :
            streams[k].status = "live" /\ streamState[k] = "live"

(***************************************************************************)
(* Claims about the Auto DJ and live DJ handlers, checked under SpecDJ,    *)
(* and about the port allocator, checked under SpecPorts.                  *)
(***************************************************************************)
Registered(s) == autoDJProcesses[s] # NoProc

\* C1: at no time does a station have both an entry in autoDJProcesses and a live
\* connection in liveDJConnections, whatever the interleaving of starts, stops, timers
\* and the connect and disconnect hooks.
C1_MutualExclusion == \A s \in StationIds : ~(Registered(s) /\ HasLive(s))

\* C2: whenever the connect hook records a live connection for a station, the station
\* has no entry in autoDJProcesses right after, whatever its auto_dj_enabled.
C2_ConnectPreempts ==
    [][\A raw \in RawMounts :
          (liveDJConnections'[raw] # NoConn /\ liveDJConnections'[raw] # liveDJConnections[raw])
              => autoDJProcesses'[liveDJConnections'[raw].stationId] = NoProc]_vars

\* C3: a start of Auto DJ called by the restart timer (5 s after an exit) or by the timer
\* of the disconnect hook (2 s) that fired while the station had a live connection never
\* spawns a process.
C3_DelayedStartUnderLive ==
    \A p \in DOMAIN processes :
        ~(processes[p].origin \in {"restart", "debounce"} /\ processes[p].underLive)

PortsInPool ==
    \A s \in StationIds :
        (audio_stations[s].present /\ audio_stations[s].stream_port # NULL)
            => audio_stations[s].stream_port \in Ports

\* C4: no two stations hold the same stream_port, and every port held is in the pool,
\* also while creations run concurrently and after the repair pass of main.
C4_PortsInjective ==
    /\ PortsInPool
    /\ \A s, t \in StationIds :
          (/\ s # t
           /\ audio_stations[s].present /\ audio_stations[t].present
           /\ audio_stations[s].stream_port # NULL)
              => audio_stations[s].stream_port # audio_stations[t].stream_port

\* two stations hold ports, and a creation in flight was given a port that a station
\* has taken since
C4_Witness ==
    /\ Cardinality(WithPort) >= 2
    /\ \E c \in DOMAIN calls :
          /\ c.op = "create" /\ c.pc = "insert"
          /\ \E s \in WithPort : audio_stations[s].stream_port = c.port

\* a disconnect hook that removed a live connection of s is in flight
Disconnecting(s) ==
    \E c \in DOMAIN calls : c.op = "disconnect" /\ c.station = s

DisconnectedWithAutoDJ(s) ==
    Disconnecting(s) /\ Enabled(s) /\ playlist_tracks[s] # <<>>

\* C10 as the specification states it: after a live disconnect of a station with Auto DJ
\* enabled and a playlist with tracks, Auto DJ is registered eventually, unless a live
\* connection is accepted or Auto DJ is disabled.
C10_RestartAfterDisconnect ==
    \A s \in StationIds :
        DisconnectedWithAutoDJ(s) ~> (Registered(s) \/ HasLive(s) \/ ~Enabled(s))

\* C10, amended: after a live disconnect of a station with Auto DJ enabled and a playlist
\* with tracks, Auto DJ is registered eventually, unless a live connection is accepted,
\* Auto DJ is disabled or the playlist is emptied before the delayed start reads it.
C10_RestartAfterDisconnectWithTracks ==
    \A s \in StationIds :
        DisconnectedWithAutoDJ(s)
            ~> (Registered(s) \/ HasLive(s) \/ ~Enabled(s) \/ playlist_tracks[s] = <<>>)

\* the process the timer of the disconnect hook started is registered, with no live
\* connection
C10_Witness ==
    \E s \in StationIds :
        /\ Registered(s) /\ ~HasLive(s)
        /\ processes[autoDJProcesses[s]].origin = "debounce"
        /\ processes[autoDJProcesses[s]].state = "running"

(***************************************************************************)
(* Claims about the life cycle of the Auto DJ process: the exit handler,   *)
(* the restart callback, startAutoDJ and stopAutoDJ.                       *)
(***************************************************************************)
\* C12 as the specification states it: no Auto DJ process is spawned by a restart whose
\* timer fired while auto_dj_enabled of the station was false or the station had no row.
C12_NoRevivalAtFire ==
    \A p \in DOMAIN processes :
        ~(processes[p].origin = "restart" /\ ~processes[p].enabledAtFire)

\* the restart callback c has read auto_dj_enabled in this step
RestartChecked(c) ==
    /\ c.op = "restart" /\ c.pc = "check"
    /\ Copies(calls', c) < Copies(calls, c)

StartsCalled ==
    \E d \in DOMAIN calls' : d.op = "start" /\ Copies(calls', d) > Copies(calls, d)

\* C12, amended: when the restart callback reads auto_dj_enabled of a station and finds
\* it false, or finds no row, it does not call startAutoDJ and no process is spawned,
\* whatever auto_dj_enabled was when the process exited.
C12_NoRevivalAtCheck ==
    [][\A c \in DOMAIN calls :
          (RestartChecked(c) /\ ~Enabled(c.station))
              => (~StartsCalled /\ processes' = processes
                    /\ autoDJProcesses' = autoDJProcesses)]_vars

\* a process has exited, its restart callback has run and found the station disabled:
\* nothing is in flight and nothing is registered
C12_Witness ==
    \E p \in DOMAIN processes :
        /\ processes[p].state = "exited"
        /\ ~Enabled(processes[p].station)
        /\ ~Registered(processes[p].station)
        /\ timers = EmptyBag /\ calls = EmptyBag
        /\ \A q \in DOMAIN processes : processes[q].state = "exited"

\* the exit handler of a process of s has run and its restart timer is armed
ExitedWithAutoDJ(s) ==
    /\ Timer("restart", s) \in DOMAIN timers
    /\ Enabled(s) /\ playlist_tracks[s] # <<>>

\* a process is registered for s and now_playing of s is the first track of the playlist
Recovered(s) ==
    /\ Registered(s)
    /\ now_playing[s].present /\ ~now_playing[s].is_live
    /\ playlist_tracks[s] # <<>>
    /\ now_playing[s].track_id = Head(playlist_tracks[s])

\* a stop of the Auto DJ of s was requested and its handler is in flight
Stopping(s) ==
    \E c \in DOMAIN calls : c.op = "stop" /\ c.station = s

CallsStartAutoDJ(s) ==
    \/ ManualStart(s)
    \/ \E t \in DOMAIN timers : t.station = s /\ t.kind # "restart" /\ TimerFires(t)
    \/ \E c \in DOMAIN calls : c.station = s /\ Enabled(s) /\ RestartCheck(c)

\* C15: a call of startAutoDJ for a station that has an entry in autoDJProcesses does
\* nothing: no process is spawned, the entry stays, now_playing and the playlist file
\* are not written, and the call does not go on to its queries.
C15_StartWhileRegistered ==
    [][\A s \in StationIds :
          (CallsStartAutoDJ(s) /\ Registered(s))
              => /\ UNCHANGED <<processes, autoDJProcesses, now_playing, playlistFiles>>
                 /\ ~StartsCalled]_vars

\* the process started at start-up has exited, the start route has registered a second
\* one, and the restart callback of the first has since called startAutoDJ and returned
C15_Witness ==
    \E s \in StationIds :
        /\ Len(processes) = 2
        /\ processes[1].station = s /\ processes[1].state = "exited"
        /\ processes[2].station = s /\ processes[2].state = "running"
        /\ processes[2].origin = "manual"
        /\ autoDJProcesses[s] = 2
        /\ Enabled(s)
        /\ timers = EmptyBag /\ calls = EmptyBag

\* C16: every Auto DJ process that is alive is the one autoDJProcesses holds for its
\* station, so that calls of startAutoDJ that overlap leave at most one process and none
\* that is alive without being registered.
C16_NoUnregisteredProcess ==
    \A p \in DOMAIN processes :
        processes[p].state = "running" => autoDJProcesses[processes[p].station] = p

\* the start call c has read the station row, or its tracks, in this step
StationRead(c) ==
    /\ c.op = "start" /\ c.pc = "station"
    /\ Copies(calls', c) < Copies(calls, c)

TracksRead(c) ==
    /\ c.op = "start" /\ c.pc = "tracks"
    /\ Copies(calls', c) < Copies(calls, c)

\* what startAutoDJ(c.station) finds makes it return: no row, auto_dj_enabled false,
\* or no tracks in the effective playlist
FailsFast(c) ==
    \/ StationRead(c) /\ ~audio_stations[c.station].present
    \/ StationRead(c) /\ ~audio_stations[c.station].auto_dj_enabled
    \/ TracksRead(c) /\ playlist_tracks[c.station] = <<>>

\* C17: a call of startAutoDJ that finds no station row, auto_dj_enabled false or no
\* tracks ends there: no process is spawned, no entry is registered, now_playing and
\* the playlist file are not written, and the call leaves nothing in flight.
C17_StartFailsFast ==
    [][\A c \in DOMAIN calls :
          FailsFast(c)
              => /\ calls' = BagRemove(calls, c)
                 /\ UNCHANGED <<processes, autoDJProcesses, now_playing, playlistFiles,
                                timers>>]_vars

\* nothing was ever spawned and nothing is pending, where one station was deleted, one
\* was disabled or lost its tracks, and the start-up starts of both have returned
C17_Witness ==
    /\ processes = <<>>
    /\ timers = EmptyBag /\ calls = EmptyBag
    /\ \E s \in StationIds : s \in issued /\ ~audio_stations[s].present
    /\ \E s \in StationIds :
          /\ audio_stations[s].present
          /\ ~audio_stations[s].auto_dj_enabled \/ playlist_tracks[s] = <<>>
    /\ now_playing = [s \in StationIds |-> NoNP]

\* this step calls stopAutoDJ(s): the stop route, the deletion of the station, or the
\* connect hook accepting a DJ of a station with auto_dj_enabled
CallsStopAutoDJ(s) ==
    \/ ManualStop(s)
    \/ DeleteStation(s)
    \/ \E raw \in RawMounts : \E pass \in Passwords :
          /\ LiveConnect(raw, pass)
          /\ \E dj \in DjRows(raw, pass) : dj.station_id = s /\ StopsOnConnect(s)

\* C18: a call of stopAutoDJ for a station without an entry in autoDJProcesses changes
\* neither the processes nor the registry; a call for a station with an entry signals
\* its process, which was running until then, and removes the entry, so that a second
\* call finds none and no process is signalled twice.
C18_StopIdempotent ==
    [][\A s \in StationIds :
          CallsStopAutoDJ(s)
              => IF Registered(s)
                 THEN /\ processes[autoDJProcesses[s]].state = "running"
                      /\ processes' =
                             [processes EXCEPT ![autoDJProcesses[s]].state = "signalled"]
                      /\ autoDJProcesses' = [autoDJProcesses EXCEPT ![s] = NoProc]
                 ELSE UNCHANGED <<processes, autoDJProcesses>>]_vars

\* two stops of one station are in flight: the first signalled the process, the second
\* found no entry
C18_Witness ==
    \E s \in StationIds :
        /\ Copies(calls, Call("stop", "kill", s)) = 2
        /\ ~Registered(s)
        /\ \E p \in DOMAIN processes :
              processes[p].station = s /\ processes[p].state = "signalled"
        /\ \A p \in DOMAIN processes : processes[p].state # "exited"

\* this step is an event of the Auto DJ of s: a call of startAutoDJ or one of its
\* continuations, a call of stopAutoDJ, the exit of a process with its handler and the
\* DELETE it issued, the restart timer and its callback
AutoDJEvent(s) ==
    \/ CallsStartAutoDJ(s)
    \/ CallsStopAutoDJ(s)
    \/ \E c \in DOMAIN calls :
          /\ c.station = s
          /\ StartStation(c) \/ StartTracks(c) \/ StartNowPlaying(c) \/ RestartCheck(c)
    \/ \E t \in DOMAIN timers : t.station = s /\ TimerFires(t)
    \/ \E p \in DOMAIN processes :
          /\ processes[p].station = s
          /\ ProcessCrash(p) \/ ProcessExit(p)
    \/ PendingDelete(s)

\* the Auto DJ processes and registry entry, the live connections and the now_playing
\* row of t are the same after the step
Untouched(t) ==
    /\ autoDJProcesses'[t] = autoDJProcesses[t]
    /\ \A p \in DOMAIN processes :
          processes[p].station = t => processes'[p] = processes[p]
    /\ \A p \in DOMAIN processes' :
          processes'[p].station = t => p \in DOMAIN processes
    /\ \A m \in RawMounts :
          (liveDJConnections[m].stationId = t \/ liveDJConnections'[m].stationId = t)
              => liveDJConnections'[m] = liveDJConnections[m]
    /\ now_playing'[t] = now_playing[t]

\* C19: an event of the Auto DJ of one station (start, stop, exit of its process,
\* restart timer, a start that fails) leaves the Auto DJ process and registry entry, the
\* live connections and the now_playing row of every other station as they were.
C19_StationIsolation ==
    [][\A s \in StationIds :
          AutoDJEvent(s) => \A t \in StationIds \ {s} : Untouched(t)]_vars

\* the Auto DJ process of one station has exited while another station has a live
\* connection and its now_playing row shows the DJ
C19_Witness ==
    \E s, t \in StationIds :
        /\ s # t
        /\ \E p \in DOMAIN processes :
              processes[p].station = s /\ processes[p].state = "exited"
        /\ HasLive(t)
        /\ now_playing[t].present /\ now_playing[t].is_live

\* this step is the connect hook answering a source that presents the
\* ICECAST_SOURCE_PASSWORD on the mount and matches no DJ
AcceptsSource(raw) ==
    /\ DjRows(raw, ICECAST_SOURCE_PASSWORD) = {}
    /\ LiveConnect(raw, ICECAST_SOURCE_PASSWORD)

\* the disconnect hook called for a source accepted on the ICECAST_SOURCE_PASSWORD
\* decides in this step whether to arm the timer that starts Auto DJ
SourceDisconnectChecked(c) ==
    /\ c.op = "disconnect" /\ c.pc = "check" /\ c.origin = "source"
    /\ Copies(calls', c) < Copies(calls, c)

\* C20: a source that connects on the ICECAST_SOURCE_PASSWORD and matches no DJ is
\* accepted without any effect (Auto DJ is not stopped, no live connection is recorded,
\* now_playing is not written), and the disconnect hook called when that source
\* disconnects arms no timer to start Auto DJ.
C20_SourcePasswordHasNoEffect ==
    [][/\ \A raw \in RawMounts :
            AcceptsSource(raw)
                => /\ sourceConnections'[raw] = sourceConnections[raw] + 1
                   /\ UNCHANGED <<autoDJProcesses, processes, liveDJConnections,
                                  now_playing, calls, timers>>
       /\ \A c \in DOMAIN calls : SourceDisconnectChecked(c) => timers' = timers]_vars

(***************************************************************************)
(* Claims about the port allocator and station creation, under SpecPorts.  *)
(***************************************************************************)
\* getNextAvailablePort of the creation c has returned or thrown in this step
PortAnswered(c) ==
    /\ c.op = "create" /\ c.pc = "port"
    /\ Copies(calls', c) < Copies(calls, c)

\* C13: when every port of the pool is held by a station at the time a creation asks
\* for a port, the creation ends there: the handler does not go on to its INSERT, and
\* no station row, mount point row, default playlist, container or registry entry
\* is written.
C13_ExhaustedPoolLeavesNoTrace ==
    [][\A c \in DOMAIN calls :
          (PortAnswered(c) /\ Ports \subseteq UsedPorts)
              => /\ calls' = BagRemove(calls, c)
                 /\ UNCHANGED <<audio_stations, station_mount_points, station_playlists,
                                icecastContainers, docker, issued>>]_vars

\* the server listens, the pool is exhausted, and the only requests served so far were
\* creations, which have ended without a station
C13_Witness ==
    /\ main.pc = "listening"
    /\ requests < MaxAdmin
    /\ calls = EmptyBag
    /\ Ports \subseteq UsedPorts
    /\ Cardinality(issued) = PoolSize
    /\ \A s \in issued : audio_stations[s].present

\* the creation d is the creation c gone on to its INSERT with a port
GivenPort(c, d) ==
    /\ d.op = "create" /\ d.pc = "insert"
    /\ d = [c EXCEPT !.pc = "insert", !.port = d.port]
    /\ Copies(calls', d) > Copies(calls, d)

\* C14: whenever getNextAvailablePort answers a creation while the ports held by
\* stations do not cover the pool, the port it returns is in the pool, is held by no
\* station, and is the least such port.
C14_LeastFreePort ==
    [][\A c \in DOMAIN calls :
          (PortAnswered(c) /\ ~(Ports \subseteq UsedPorts))
              => \E d \in DOMAIN calls' :
                    /\ GivenPort(c, d)
                    /\ d.port \in Ports \ UsedPorts
                    /\ \A q \in Ports \ UsedPorts : d.port <= q]_vars

\* a creation was given the first port of the pool while a station holds a later one
C14_Witness ==
    \E c \in DOMAIN calls :
        /\ c.op = "create" /\ c.pc = "insert"
        /\ c.port = BASE_STREAM_PORT
        /\ BASE_STREAM_PORT \notin UsedPorts
        /\ MAX_STREAM_PORT \in UsedPorts

(***************************************************************************)
(* Claims about the connect and disconnect hooks, station deletion and the *)
(* media server containers.                                                *)
(***************************************************************************)
\* d is a DJ of the station that owns the mount, presents its own password, is active
\* and may stream
MayStream(d, raw, pass) ==
    /\ audio_stations[d.station_id].present
    /\ audio_stations[d.station_id].mount_point = StripSlash(raw)
    /\ d.stream_password = pass
    /\ d.is_active /\ d.can_stream

\* C21: the connect hook records a live connection only for a DJ of the station that
\* owns the presented mount, whose password was presented and who is active and allowed
\* to stream; when no such DJ exists and the password is not the
\* ICECAST_SOURCE_PASSWORD, the hook changes nothing: no process is signalled, no
\* connection recorded, now_playing and last_connected are not written, no call or
\* timer is left.
C21_OnlyDJsAreAccepted ==
    [][\A raw \in RawMounts : \A pass \in Passwords :
          LiveConnect(raw, pass)
              => IF \E d \in station_djs : MayStream(d, raw, pass)
                 THEN \E d \in station_djs :
                        /\ MayStream(d, raw, pass)
                        /\ liveDJConnections'[raw] =
                               [stationId |-> d.station_id, djId |-> d.id]
                 ELSE /\ UNCHANGED <<autoDJProcesses, processes, liveDJConnections,
                                     now_playing, last_connected, calls, timers>>
                      /\ pass # ICECAST_SOURCE_PASSWORD => UNCHANGED sourceConnections]_vars

\* DJ d1 is recorded on the mount of its station and its accept handler has completed,
\* while nothing is recorded for the deactivated DJ d2 or on the mount of the other
\* station
C21_Witness ==
    /\ liveDJConnections[<<"/", "m1">>] = [stationId |-> "a1", djId |-> "d1"]
    /\ liveDJConnections[<<"/", "m2">>] = NoConn
    /\ last_connected = {"d1"}
    /\ now_playing["a1"].is_live /\ now_playing["a1"].dj_id = "d1"
    /\ requests = 0

\* the container stopIcecastForStation and startIcecastForStation address for station s
InstanceOf(s) ==
    IF icecastContainers[s] # "none" THEN icecastContainers[s] ELSE ContainerName(s)

\* docker run of startIcecastForStation(s) with the port passed to it: no other container
\* changes; the run succeeds when the name and the host port are free, and the container
\* it launches publishes that port and is registered for s
LaunchOutcome(s, port) ==
    LET name == ContainerName(s)
    IN  /\ \A n \in ContainerNames \ {name} : docker'[n] = docker[n]
        /\ IF docker[name].port = NULL /\ \A n \in ContainerNames : docker[n].port # port
           THEN /\ docker'[name].port = port
                /\ icecastContainers'[s] = name
           ELSE UNCHANGED <<docker, icecastContainers>>

\* C22, states: a station has one container name, the one its registry entry holds, and
\* when main is about to launch the container of a station no container of that name
\* exists, whatever the previous run of the streamer left behind
C22_TornDown ==
    /\ \A s \in StationIds : icecastContainers[s] \in {"none", ContainerName(s)}
    /\ main.pc = "icecast_run" => docker[ContainerName(Head(main.todo))].port = NULL

\* C22, steps: the first step of startIcecastForStation removes the container of the
\* station's name, its second step launches at most one that carries the port passed to
\* the call, and stopIcecastForStation leaves the station without container and entry
C22_Steps ==
    /\ \A c \in DOMAIN calls :
          /\ CreateIcecastRemove(c) => docker'[ContainerName(c.station)].port = NULL
          /\ CreateIcecastRun(c) => LaunchOutcome(c.station, c.port)
          /\ DeleteDocker(c) => /\ docker'[InstanceOf(c.station)].port = NULL
                                /\ icecastContainers'[c.station] = "none"
    /\ MainIcecastRemove => docker'[ContainerName(Head(main.todo))].port = NULL
    /\ MainIcecastRun => LaunchOutcome(Head(main.todo), main.port)

\* C22: every station has at most one media server container after any sequence of
\* startIcecastForStation and stopIcecastForStation calls, also when the registry is
\* empty after a restart and a container of the previous run exists: the container is
\* torn down before the launch, and a launched container carries the port of that call
C22_SingleInstance == []C22_TornDown /\ [][C22_Steps]_vars

\* main has replaced the container the previous run left under the name of station a1:
\* the registry, empty at the start, holds the entry and the container publishes a1's port
C22_Witness ==
    /\ main.pc = "listening"
    /\ icecastContainers["a1"] = ContainerName("a1")
    /\ docker[ContainerName("a1")] = [port |-> BASE_STREAM_PORT, stale |-> TRUE]
    /\ audio_stations["a1"].stream_port = BASE_STREAM_PORT

\* the DELETE of station s has completed: its id was issued and its row is gone
Deleted(s) == s \in issued /\ ~audio_stations[s].present

\* C23: once the deletion of a station has completed the station has no Auto DJ
\* process in the registry, no live DJ connection and no container entry, and none of
\* its timers or starts in flight registers a process for it later
C23_DeletedStationIsGone ==
    \A s \in StationIds :
        Deleted(s) => /\ autoDJProcesses[s] = NoProc
                      /\ ~HasLive(s)
                      /\ icecastContainers[s] = "none"

(***************************************************************************)
(* Claims about overlapping and failing reconciliation cycles              *)
(***************************************************************************)
\* the cycles in flight whose current handler call is for key k at one of the steps pcs
HandlersAt(k, pcs) ==
    BagSize([c \in {d \in DOMAIN cycles : d.cur = k /\ d.pc \in pcs} |-> cycles[c]])

\* stream:start notifications of key k: published, or owed by a handler call whose
\* UPDATE has returned the row
StartsAnnounced(k) ==
    CountIn(bus, [topic |-> "stream:start", key |-> k])
        + HandlersAt(k, {"start_state", "start_publish"})

\* stream:stop notifications of key k: published, or owed by a handler call whose
\* UPDATE has returned the row
StopsAnnounced(k) ==
    CountIn(bus, [topic |-> "stream:stop", key |-> k])
        + HandlersAt(k, {"end_recording", "end_state", "end_publish"})

InRepairPass == main.pc \in {"select", "port", "update"}

\* main has left the pass without a throw
RepairPassDone == main.pc \in {"containers", "icecast_rm", "icecast_run", "timers", "listening"}

\* C25, steps: a step of the pass leaves every station that holds a port as it is, and
\* the port it gives a station is in the pool and held by no other station
C25_PassSteps ==
    InRepairPass =>
        \A s \in StationIds :
            /\ audio_stations[s].stream_port # NULL => audio_stations'[s] = audio_stations[s]
            /\ audio_stations'[s] # audio_stations[s] =>
                  /\ audio_stations'[s] =
                         [audio_stations[s] EXCEPT !.stream_port = main.port]
                  /\ main.port \in Ports
                  /\ \A t \in StationIds \ {s} : audio_stations'[t].stream_port # main.port

\* C25, states: after the pass every station holds a port of its own, so the SELECT
\* of a second pass returns no row and its loop writes nothing
C25_PassDone ==
    RepairPassDone =>
        \A s \in StationIds :
            audio_stations[s].present =>
                /\ audio_stations[s].stream_port \in Ports
                /\ \A t \in StationIds \ {s} :
                      audio_stations[t].stream_port # audio_stations[s].stream_port

\* C25: the repair pass of main is idempotent: it never changes the port of a station
\* that holds one, gives every station without a port a free port distinct from all
\* others, and a second pass changes nothing
C25_RepairIdempotent == []C25_PassDone /\ [][C25_PassSteps]_vars

\* the pass is over: station a1 keeps the last port of the pool, which it held at the
\* start, and station a2, which held none, has been given the first, which was free
C25_Witness ==
    /\ main.pc = "containers"
    /\ audio_stations["a1"] = StationRow(MAX_STREAM_PORT, "m1", FALSE)
    /\ audio_stations["a2"] = StationRow(BASE_STREAM_PORT, "m2", TRUE)

(***************************************************************************)
(* Claims about now_playing and the disconnect hook                        *)
(***************************************************************************)
\* the accepting handler of a connection to station s is still in flight
Accepting(s) == \E c \in DOMAIN calls : c.op = "connect" /\ c.station = s

\* C26: while a live DJ connection is recorded for a station and its accepting handler
\* has completed, the now_playing row of the station exists, is live and names that DJ
C26_LiveNowPlaying ==
    \A raw \in RawMounts :
        LET conn == liveDJConnections[raw]
        IN  (conn # NoConn /\ ~Accepting(conn.stationId))
                => /\ now_playing[conn.stationId].present
                   /\ now_playing[conn.stationId].is_live
                   /\ now_playing[conn.stationId].dj_id = conn.djId

\* no handler of station s is in flight: no request handler or timer callback awaits,
\* no exit handler is due and none has left its DELETE behind
NoHandlerInFlight(s) ==
    /\ \A c \in DOMAIN calls : c.station # s
    /\ pendingDeletes[s] = 0
    /\ \A p \in DOMAIN processes :
          processes[p].station = s => processes[p].state = "exited"

\* C27: in every state in which no handler of a station is in flight and the station
\* has neither a registered Auto DJ process nor a live DJ connection, the station has
\* no now_playing row (the table holds at most one row per station_id by its key)
C27_ClearedWhenOff ==
    \A s \in StationIds :
        (NoHandlerInFlight(s) /\ autoDJProcesses[s] = NoProc /\ ~HasLive(s))
            => ~now_playing[s].present

\* the state no step of the disconnect handler writes
DisconnectFrame ==
    <<audio_stations, playlist_tracks, autoDJProcesses, processes, pendingDeletes,
      last_connected, playlistFiles, stream_history, adminVars>>

\* C28: a disconnect for a mount with a recorded connection removes that entry and no
\* other, then deletes the now_playing row of the entry's station, then arms one
\* delayed start if the station's auto_dj_enabled is set when the handler reads it and
\* none otherwise; a disconnect for a mount without entry starts no handler and
\* changes neither connections, now_playing nor timers
C28_DisconnectEffect ==
    [][/\ \A raw \in RawMounts :
             (LiveDisconnect(raw) \/ SourceDisconnect(raw)) =>
                 /\ liveDJConnections' =
                        [m \in RawMounts |-> IF m = raw THEN NoConn
                                             ELSE liveDJConnections[m]]
                 /\ liveDJConnections[raw] = NoConn => UNCHANGED calls
                 /\ liveDJConnections[raw] # NoConn =>
                        \E c \in DOMAIN calls' :
                            /\ c.op = "disconnect"
                            /\ c.station = liveDJConnections[raw].stationId
                            /\ Copies(calls', c) = Copies(calls, c) + 1
                 /\ UNCHANGED <<now_playing, timers, DisconnectFrame>>
       /\ \A c \in DOMAIN calls :
             /\ DisconnectNowPlaying(c) =>
                    /\ now_playing' = [s \in StationIds |-> IF s = c.station THEN NoNP
                                                           ELSE now_playing[s]]
                    /\ UNCHANGED <<liveDJConnections, timers, DisconnectFrame>>
             /\ DisconnectCheck(c) =>
                    /\ timers' =
                           IF /\ audio_stations[c.station].present
                              /\ audio_stations[c.station].auto_dj_enabled
                           THEN BagAdd(timers, Timer("debounce", c.station))
                           ELSE timers
                    /\ UNCHANGED <<liveDJConnections, now_playing, DisconnectFrame>>]_vars

\* DJ d1 has disconnected from station a1, whose Auto DJ had been enabled: its entry
\* and its now_playing row are gone and one delayed start is armed, while the
\* connection and the now_playing row of station b1 are as they were
C28_Witness ==
    /\ liveDJConnections[<<"/", "m1">>] = NoConn
    /\ liveDJConnections[<<"/", "m2">>] = [stationId |-> "b1", djId |-> "d3"]
    /\ ~now_playing["a1"].present
    /\ now_playing["b1"].is_live /\ now_playing["b1"].dj_id = "d3"
    /\ timers = BagAdd(EmptyBag, Timer("debounce", "a1"))
    /\ calls = EmptyBag
    /\ audio_stations["a1"].auto_dj_enabled

\* a step in which the catch of a handler has run
Caught == requests' < requests

\* C29: a failure while a newly detected active stream is handled only delays the
\* transition: with the origin still reporting k1, a later cycle marks k1 live and
\* publishes stream:start for it; and the step that handles the failure leaves the
\* rows of all streams and the known keys of the others as they were
C29_FailureOnlyDelays ==
    /\ <>(/\ streams["k1"].status = "live"
          /\ CountIn(bus, [topic |-> "stream:start", key |-> "k1"]) > 0)
    /\ [][Caught => /\ streams' = streams
                    /\ \A k \in Keys : (k \in KnownSet(knownActiveStreams)
                                           /\ \A c \in DOMAIN cycles : c.cur # k)
                                       => k \in KnownSet(knownActiveStreams')]_vars

\* the message a step has published, if it is a start notification
StartPublished ==
    /\ bus' # bus
    /\ bus'[Len(bus')].topic \in {"stream:start", "recording:start"}

\* C30: a call of handleStreamStart goes on to publish stream:start exactly when its
\* UPDATE has changed the status of the stream to live, and after stream:start it
\* publishes recording:start exactly when the stream has recording enabled; nothing
\* else publishes a start notification
C30_StartNotifications ==
    [][/\ \A c \in DOMAIN cycles :
             /\ HandleStartUpdate(c) =>
                    /\ bus' = bus
                    /\ HandlersAt(c.cur, {"start_state"})' =
                           HandlersAt(c.cur, {"start_state"})
                               + (IF /\ streams[c.cur].status # "live"
                                     /\ streams'[c.cur].status = "live"
                                  THEN 1 ELSE 0)
                    /\ HandlersAt(c.cur, {"start_publish", "start_recording"})' =
                           HandlersAt(c.cur, {"start_publish", "start_recording"})
             /\ HandleStartState(c) =>
                    /\ bus' = bus
                    /\ HandlersAt(c.cur, {"start_publish"})' =
                           HandlersAt(c.cur, {"start_publish"}) + 1
             /\ HandleStartPublish(c) =>
                    /\ bus' = Append(bus, [topic |-> "stream:start", key |-> c.cur])
                    /\ c.sent = <<>>
                    /\ HandlersAt(c.cur, {"start_recording"})' =
                           HandlersAt(c.cur, {"start_recording"})
                               + (IF streams[c.cur].recording_enabled THEN 1 ELSE 0)
             /\ HandleStartRecording(c) =>
                    /\ bus' = Append(bus, [topic |-> "recording:start", key |-> c.cur])
                    /\ c.sent = <<"stream:start">>
                    /\ streams[c.cur].recording_enabled
       /\ StartPublished =>
             \E c \in DOMAIN cycles : HandleStartPublish(c) \/ HandleStartRecording(c)]_vars

\* both streams have been marked live: k2, which records, has its stream:start followed
\* by recording:start, and k1, which does not record, has stream:start alone
C30_Witness ==
    /\ streams["k1"].status = "live" /\ ~streams["k1"].recording_enabled
    /\ streams["k2"].status = "live" /\ streams["k2"].recording_enabled
    /\ bus = <<[topic |-> "stream:start", key |-> "k1"],
               [topic |-> "stream:start", key |-> "k2"],
               [topic |-> "recording:start", key |-> "k2"]>>
    /\ cycles = EmptyBag

(***************************************************************************)
(* Claims about the notifications of a stream end.                         *)
(***************************************************************************)
\* C31: recording:stop is on the bus only for a stream whose row has recording
\* enabled; the end of a stream without recording publishes stream:stop alone
C31_RecordingStopOnlyIfEnabled ==
    \A k \in Keys :
        BusCount(bus, "recording:stop", k) > 0 => streams[k].recording_enabled

(***************************************************************************)
(* Claims about the exit handler of the encoder process and the stop of a  *)
(* broadcast.                                                              *)
(***************************************************************************)
\* the processes spawned for station s whose exit event has been delivered
ExitsOf(s) == {p \in DOMAIN processes : processes[p].station = s /\ processes[p].state = "exited"}

\* this step delivers the exit event of process p
ExitOf(p) == processes[p].state # "exited" /\ processes'[p].state = "exited"

HasInstance(s) ==
    /\ audio_stations[s].present
    /\ docker[ContainerName(s)].port # NULL
    /\ docker[ContainerName(s)].port = audio_stations[s].stream_port

\* this step is the docker run of startIcecastForStation for station s and it fails
LaunchFails(s) ==
    /\ \/ \E c \in DOMAIN calls : c.station = s /\ CreateIcecastRun(c)
       \/ main.todo # <<>> /\ Head(main.todo) = s /\ MainIcecastRun
    /\ docker' = docker

\* C33, the registry: it holds an entry for a station only while the container launched
\* for that station exists
C33_HandleOnlyWhileInstance ==
    \A s \in StationIds : icecastContainers[s] # "none" => HasInstance(s)

\* C33, the failed launch: it leaves the registry without an entry for the station
C33_FailedLaunchLeavesNoHandle ==
    [][\A s \in StationIds : LaunchFails(s) => icecastContainers'[s] = "none"]_vars

(***************************************************************************)
(* Claims about the stop of a broadcast, checked under SpecStop.           *)
(***************************************************************************)
\* a stop request for station s has been served to its end and none is in flight; under
\* SpecStop every request is a stop request
StopCompleted(s) ==
    /\ requests < MaxRequests
    /\ \A c \in DOMAIN calls : ~(c.op = "stop" /\ c.station = s)

\* C34: once the stop of station s has completed, and while no start request and no
\* live connect arrives, s has no Auto DJ process in the registry and no live DJ
\* connection; the exit of the process that was stopped does not bring Auto DJ back
C34_StopIsDurable ==
    \A s \in StationIds :
        StopCompleted(s) => autoDJProcesses[s] = NoProc /\ ~HasLive(s)

(***************************************************************************)
(* Claims about late exit events, checked under SpecDJ.                    *)
(***************************************************************************)
\* C35: the exit event of a process that is not the one registered for its station
\* leaves the registry entry of the station as it is
C35_ExitUnregistersOwnProcess ==
    [][\A p \in DOMAIN processes :
          (ExitOf(p) /\ autoDJProcesses[processes[p].station] # p)
              => autoDJProcesses'[processes[p].station]
                     = autoDJProcesses[processes[p].station]]_vars

(***************************************************************************)
(* Claims about the container names of stations, checked under SpecPorts.  *)
(***************************************************************************)
\* the streamer has launched the container of station b and it exists
Runs(b) == icecastContainers[b] # "none" /\ HasInstance(b)

\* this step is a step of startIcecastForStation or stopIcecastForStation called for
\* station a
ContainerStepFor(a) ==
    \/ \E c \in DOMAIN calls :
          /\ c.station = a
          /\ CreateIcecastRemove(c) \/ CreateIcecastRun(c) \/ DeleteDocker(c)
    \/ /\ main.todo # <<>> /\ Head(main.todo) = a
       /\ MainIcecastRemove \/ MainIcecastRun

\* C36: a step of startIcecastForStation or stopIcecastForStation for station a leaves
\* the container of every other station b as it is, whatever the two ids are
C36_OtherInstancesUntouched ==
    [][\A a, b \in StationIds :
          (a # b /\ Runs(b) /\ ContainerStepFor(a))
              => docker'[ContainerName(b)] = docker[ContainerName(b)]]_vars

\* C36 for two stations whose ids differ in their first 8 characters
C36_OtherNamesUntouched ==
    [][\A a, b \in StationIds :
          (ContainerName(a) # ContainerName(b) /\ Runs(b) /\ ContainerStepFor(a))
              => docker'[ContainerName(b)] = docker[ContainerName(b)]]_vars

(***************************************************************************)
(* Claims about drift between the rows and the origin.                     *)
(***************************************************************************)
\* C37: a stream whose row is live while the origin does not report it is marked ended
\* after finitely many cycles, also when the row was live before the reconciler started
C37_DriftCorrected == <>(streams["k1"].status = "ended")

(***************************************************************************)
(* Claims about the source-authentication hook, checked under SpecAuth.    *)
(***************************************************************************)
\* this step is the answer of the hook to the call c, with the header h
Answers(c, h) ==
    \/ IcecastAuthSelect(c) /\ AuthHeader(c) = h
    \/ IcecastAuthThrows(c) /\ CaughtHeader = h

\* the request of call c names the mount of an existing station and presents a password
\* that is the source password of that station or the ICECAST_SOURCE_PASSWORD
Authentic(c) ==
    \E s \in StationIds :
        /\ audio_stations[s].present
        /\ c.raw \in {<<audio_stations[s].mount_point>>, <<"/", audio_stations[s].mount_point>>}
        /\ c.pass \in Passwords
        /\ c.pass = source_password[s] \/ c.pass = ICECAST_SOURCE_PASSWORD

C38_FailsClosedOnFormBodies ==
    [][\A c \in DOMAIN calls :
          (c.pass # NoPassword /\ Answers(c, "1")) => Authentic(c)]_vars

(***************************************************************************)
(* Claims about knownActiveStreams, checked under SpecSyncFaults.          *)
(***************************************************************************)
\* C39: when a cycle whose fetch answered has run from its fetch to its end with no
\* other cycle in flight, knownActiveStreams holds exactly the keys that answer reported
\* as publishing, whether its handlers completed or failed
C39_KnownIsActive ==
    (cycles = EmptyBag /\ lastCycle.how = "alone")
        => KnownSet(knownActiveStreams) = lastCycle.active

\* a cycle has finished alone after the UPDATE of handleStreamStart failed for k1: the
\* key is known although its row is still idle
C39_Witness ==
    /\ cycles = EmptyBag /\ lastCycle.how = "alone"
    /\ requests < MaxFaults
    /\ "k1" \in lastCycle.active
    /\ "k1" \in KnownSet(knownActiveStreams)
    /\ streams["k1"].status = "idle"

====
